---- MODULE Spec2Model ----
(***************************************************************************)
(* A model of package fw (github.com/goslogan/fw): a Decoder session that  *)
(* reads fixed width records from a stream, the header/layout resolution,  *)
(* the process-wide cache of compiled struct setters and the field         *)
(* converters.                                                             *)
(*                                                                         *)
(* Text.  A Go string is modelled as a sequence of runes and a rune as the *)
(* TLA+ string of its UTF-8 bytes, one letter per byte: "a" is a one byte  *)
(* rune, "xy" stands for one two-byte rune (such as an accented letter).   *)
(* len([]rune(s)) is Len(s); len(s), the byte count, is ByteLen(s).        *)
(***************************************************************************)
EXTENDS Integers, Sequences, FiniteSets, TLC

\* ------------------------------------------------------------------ bounds

\* Longest stream a session reads, in records (header included).
MaxRecords == 3

\* The longest stream of the sessions that scan arbitrary streams.
MaxStream == 4

\* The number of concurrent cachedStructSetter calls.
MaxGoroutines == 3

\* ------------------------------------------------------------------ text

NL == "\n"
Space == " "
\* One rune of two bytes.
Wide == "xy"

\* len(s) of the string of the runes s: a byte for every byte of every rune
\* (UTF-8 encodes a rune in at most 4 bytes).
ByteLen(s) == Cardinality({b \in (1..Len(s)) \X (1..4) : b[2] <= Len(s[b[1]])})

\* string(runes): the column name a run of runes spells.
RECURSIVE Str(_)
Str(s) == IF s = <<>> THEN "" ELSE Head(s) \o Str(Tail(s))

\* Byte offset of the rune boundary after the first k runes of s.
ByteOffset(s, k) == ByteLen(SubSeq(s, 1, k))

\* Does the run t occur in s right after the first k runes?
OccursAt(s, t, k) == /\ k + Len(t) <= Len(s)
                     /\ SubSeq(s, k + 1, k + Len(t)) = t

\* bytes.Index(data, sep): the first position of sep in data, or -1.
Index(data, sep) ==
    IF \E k \in 0..Len(data) : OccursAt(data, sep, k)
    THEN CHOOSE k \in 0..Len(data) :
            /\ OccursAt(data, sep, k)
            /\ \A j \in 0..(k - 1) : ~OccursAt(data, sep, j)
    ELSE -1

\* ------------------------------------------------------------------ regexp

\* regexp.Compile succeeds on every pattern built from this separator.  "("
\* opens a group that is never closed: every pattern containing it is invalid.
ValidPattern(sep) == sep # "("

\* The runes of a separator.  The separators of the model are one rune, or
\* the two runes of "ab".
Atoms(sep) == IF sep = "ab" THEN <<"a", "b">> ELSE <<sep>>

\* Length of the match of the pattern sep + "+" that starts after the first
\* k runes of s, 0 when there is none.  In the pattern, + binds to the last
\* rune of sep only: the match is the runes of sep followed by as many
\* repetitions of its last rune as there are.
RunLen(s, k, sep) ==
    IF k + Len(Atoms(sep)) > Len(s)
       \/ SubSeq(s, k + 1, k + Len(Atoms(sep))) # Atoms(sep)
    THEN 0
    ELSE (CHOOSE m \in (k + Len(Atoms(sep)))..Len(s) :
             /\ \A j \in (k + Len(Atoms(sep)) + 1)..m :
                   s[j] = Atoms(sep)[Len(Atoms(sep))]
             /\ (m = Len(s) \/ s[m + 1] # Atoms(sep)[Len(Atoms(sep))])) - k

\* leftTrimmer ("^" + sep + "+") and rightTrimmer (sep + "+$") replaced by "":
\* the match at the start of the text, and the leftmost match that runs to
\* the end of the text.
TrimLeft(s, sep) == SubSeq(s, RunLen(s, 0, sep) + 1, Len(s))

TrimRight(s, sep) ==
    LET n == Len(Atoms(sep))
        \* the runes before the run of the last rune of sep that ends the text
        run == CHOOSE m \in 0..Len(s) :
                  /\ \A j \in (m + 1)..Len(s) : s[j] = Atoms(sep)[n]
                  /\ (m = 0 \/ s[m] # Atoms(sep)[n])
        \* the starts of the matches that run to the end of the text
        starts == {m \in 0..(Len(s) - n) :
                     m + n > run /\ SubSeq(s, m + 1, m + n) = Atoms(sep)}
    IN IF starts = {} THEN s
       ELSE SubSeq(s, 1, CHOOSE m \in starts : \A x \in starts : m <= x)

\* trimRegexp (sep + "+") replaced by "" everywhere: the runes that are in no
\* match are kept (the matches of a separator of distinct runes start at
\* every occurrence of it and do not overlap).
RemoveAll(s, sep) ==
    IF Len(Atoms(sep)) = 1 THEN SelectSeq(s, LAMBDA c : c # sep)
    ELSE [i \in 1..Cardinality({j \in 1..Len(s) :
                                  \A m \in 0..(j - 1) : j > m + RunLen(s, m, sep)}) |->
             s[CHOOSE j \in 1..Len(s) :
                  /\ \A m \in 0..(j - 1) : j > m + RunLen(s, m, sep)
                  /\ Cardinality({x \in 1..j :
                                   \A m \in 0..(x - 1) : x > m + RunLen(s, m, sep)}) = i]]

\* The end of the match of ".+?(?:sep+|$)" that starts after p runes, or -1:
\* the shortest run of one or more runes other than newline that is followed
\* by a separator run (taken whole) or by the end of the text.
MatchEnd(line, p, sep) ==
    LET stops == {k \in (p + 1)..Len(line) :
                    /\ \A j \in (p + 1)..k : line[j] # NL
                    /\ \/ k = Len(line)
                       \/ /\ k + Len(Atoms(sep)) <= Len(line)
                          /\ SubSeq(line, k + 1, k + Len(Atoms(sep))) = Atoms(sep)}
    IN IF stops = {} THEN -1
       ELSE LET k == CHOOSE m \in stops : \A n \in stops : m <= n
            IN k + RunLen(line, k, sep)

\* headerRegexp.FindAllStringIndex(line, -1) from rune position p on: the
\* successive non-overlapping matches as <<start, end>> pairs of BYTE offsets.
RECURSIVE FindAllStringIndex(_, _, _)
FindAllStringIndex(line, p, sep) ==
    IF p >= Len(line) THEN <<>>
    ELSE LET e == MatchEnd(line, p, sep)
         IN IF e = -1 THEN FindAllStringIndex(line, p + 1, sep)
            ELSE <<[from |-> p, to |-> e,
                    index |-> <<ByteOffset(line, p), ByteOffset(line, e)>>]>>
                 \o FindAllStringIndex(line, e, sep)

\* The map parseHeaders builds: for each match, in order, the name (the match
\* with every separator run removed) is bound to the match's byte offsets; a
\* later match of the same name overwrites an earlier one.
HeaderMap(line, sep) ==
    LET ms == FindAllStringIndex(line, 0, sep)
        nameOf(i) == Str(RemoveAll(SubSeq(line, ms[i].from + 1, ms[i].to), sep))
        names == {nameOf(i) : i \in 1..Len(ms)}
        last(n) == CHOOSE i \in 1..Len(ms) :
                      /\ nameOf(i) = n
                      /\ \A j \in 1..Len(ms) : nameOf(j) = n => j <= i
    IN [n \in names |-> ms[last(n)].index]

\* ------------------------------------------------------------------ numerals

Digits == {"0", "1", "2", "3", "4", "5", "6", "7", "8", "9"}

DigitVal(c) == CASE c = "0" -> 0 [] c = "1" -> 1 [] c = "2" -> 2 [] c = "3" -> 3
                 [] c = "4" -> 4 [] c = "5" -> 5 [] c = "6" -> 6 [] c = "7" -> 7
                 [] c = "8" -> 8 [] c = "9" -> 9

IsDigits(s) == s # <<>> /\ \A i \in 1..Len(s) : s[i] \in Digits

\* A magnitude is a digit run without leading zeros ("0" itself excepted).
RECURSIVE StripZeros(_)
StripZeros(s) == IF Len(s) > 1 /\ Head(s) = "0" THEN StripZeros(Tail(s)) ELSE s

\* a > b for two magnitudes: the longer one, or the first differing digit.
RECURSIVE Greater(_, _)
Greater(a, b) ==
    IF Len(a) # Len(b) THEN Len(a) > Len(b)
    ELSE IF a = <<>> THEN FALSE
    ELSE IF Head(a) # Head(b) THEN DigitVal(Head(a)) > DigitVal(Head(b))
    ELSE Greater(Tail(a), Tail(b))

\* The numeral of a value: what %v prints for it.
Numeral(neg, mag) == IF neg THEN <<"-">> \o mag ELSE mag

\* 2^(w-1) - 1, 2^(w-1) and 2^w - 1 for the integer kinds (int and uint are 64
\* bits wide).
MaxIntMag(kind) ==
    CASE kind = "int8" -> <<"1", "2", "7">>
      [] kind = "int16" -> <<"3", "2", "7", "6", "7">>
      [] kind = "int32" -> <<"2", "1", "4", "7", "4", "8", "3", "6", "4", "7">>
      [] kind \in {"int", "int64"} ->
      <<"9", "2", "2", "3", "3", "7", "2", "0", "3", "6",
        "8", "5", "4", "7", "7", "5", "8", "0", "7">>

MinIntMag(kind) ==
    CASE kind = "int8" -> <<"1", "2", "8">>
      [] kind = "int16" -> <<"3", "2", "7", "6", "8">>
      [] kind = "int32" -> <<"2", "1", "4", "7", "4", "8", "3", "6", "4", "8">>
      [] kind \in {"int", "int64"} ->
      <<"9", "2", "2", "3", "3", "7", "2", "0", "3", "6",
        "8", "5", "4", "7", "7", "5", "8", "0", "8">>

MaxUintMag(kind) ==
    CASE kind = "uint8" -> <<"2", "5", "5">>
      [] kind = "uint16" -> <<"6", "5", "5", "3", "5">>
      [] kind = "uint32" -> <<"4", "2", "9", "4", "9", "6", "7", "2", "9", "5">>
      [] kind \in {"uint", "uint64"} ->
      <<"1", "8", "4", "4", "6", "7", "4", "4", "0", "7",
        "3", "7", "0", "9", "5", "5", "1", "6", "1", "5">>

\* The largest decimal integer that ParseFloat still rounds to math.MaxFloat32
\* (MaxFloat32 plus half an ulp of a float64 there): above it OverflowFloat
\* reports true for a float32.
MaxFloat32Mag ==
      <<"3", "4", "0", "2", "8", "2", "3", "4", "6", "6",
        "3", "8", "5", "2", "8", "8", "7", "8", "7", "0",
        "1", "1", "7", "0", "1", "1", "4", "9", "6", "3",
        "0", "9", "7", "7", "8", "0", "2", "2", "4">>

\* The leading digits and the digit count of 2^1024 - 2^970, the least decimal
\* integer ParseFloat rounds to +Inf (and reports as out of range).
Float64RangePrefix ==
      <<"1", "7", "9", "7", "6", "9", "3", "1", "3", "4",
        "8", "6", "2", "3", "1", "5", "8", "0", "7", "9">>

Float64RangeDigits == 309

IntKinds == {"int", "int8", "int16", "int32", "int64"}
UintKinds == {"uint", "uint8", "uint16", "uint32", "uint64"}
FloatKinds == {"float32", "float64"}

\* strconv.ParseInt(s, 10, 0): an optional sign and decimal digits; a value
\* outside the 64 bit range is a range error.
ParseInt(s) ==
    LET signed == s # <<>> /\ Head(s) \in {"+", "-"}
        body == IF signed THEN Tail(s) ELSE s
        neg == signed /\ Head(s) = "-"
        mag == StripZeros(body)
    IN IF ~IsDigits(body) THEN [err |-> "syntax", neg |-> FALSE, mag |-> <<"0">>]
       ELSE IF (neg /\ Greater(mag, MinIntMag("int64")))
               \/ (~neg /\ Greater(mag, MaxIntMag("int64")))
       THEN [err |-> "range", neg |-> FALSE, mag |-> <<"0">>]
       ELSE [err |-> "nil", neg |-> neg /\ mag # <<"0">>, mag |-> mag]

\* strconv.ParseUint(s, 10, 64): decimal digits, no sign.
ParseUint(s) ==
    LET mag == StripZeros(s)
    IN IF ~IsDigits(s) THEN [err |-> "syntax", neg |-> FALSE, mag |-> <<"0">>]
       ELSE IF Greater(mag, MaxUintMag("uint64"))
       THEN [err |-> "range", neg |-> FALSE, mag |-> <<"0">>]
       ELSE [err |-> "nil", neg |-> FALSE, mag |-> mag]

\* a >= the least magnitude that rounds to +Inf.  Two magnitudes of 309 digits
\* are told apart by their leading digits.
ExceedsFloat64(mag) ==
    \/ Len(mag) > Float64RangeDigits
    \/ /\ Len(mag) = Float64RangeDigits
       /\ LET pfx == SubSeq(mag, 1, Len(Float64RangePrefix))
          IN pfx = Float64RangePrefix \/ Greater(pfx, Float64RangePrefix)

\* strconv.ParseFloat(s, 64) on the decimal integers (an optional sign and
\* digits, as %.0f prints a float): a magnitude that rounds to infinity is a
\* range error.  The value is kept as the numeral read (rounding to the
\* nearest float64 is not modelled).
ParseFloat(s) ==
    LET signed == s # <<>> /\ Head(s) \in {"+", "-"}
        body == IF signed THEN Tail(s) ELSE s
        neg == signed /\ Head(s) = "-"
        mag == StripZeros(body)
    IN IF ~IsDigits(body) THEN [err |-> "syntax", neg |-> FALSE, mag |-> <<"0">>]
       ELSE IF ExceedsFloat64(mag)
       THEN [err |-> "range", neg |-> FALSE, mag |-> <<"0">>]
       ELSE [err |-> "nil", neg |-> neg, mag |-> mag]

\* reflect.Value.OverflowInt / OverflowUint / OverflowFloat for a value of the
\* given kind.
OverflowInt(kind, v) ==
    IF v.neg THEN Greater(v.mag, MinIntMag(kind)) ELSE Greater(v.mag, MaxIntMag(kind))

OverflowUint(kind, v) == Greater(v.mag, MaxUintMag(kind))

OverflowFloat(kind, v) == kind = "float32" /\ Greater(v.mag, MaxFloat32Mag)

\* unicode.IsSpace on the runes of the model.
IsSpace(c) == c \in {Space, NL, "\t"}

\* strings.TrimSpace
RECURSIVE TrimSpace(_)
TrimSpace(s) ==
    IF s # <<>> /\ IsSpace(Head(s)) THEN TrimSpace(Tail(s))
    ELSE IF s # <<>> /\ IsSpace(s[Len(s)]) THEN TrimSpace(SubSeq(s, 1, Len(s) - 1))
    ELSE s

\* ------------------------------------------------------------------ errors

\* An error value: its kind and what its message cites.  "nil" is no error.
\*   LengthMismatch  "wrong data length in line %d (%d != %d)"
\*   InvalidType     InvalidTypeError: field name and declared type
\*   Casting         CastingError: raw value, field name and type
\*   Overflow        OverflowError: value, field name and type
\*   Regexp          the error of regexp.Compile
\*   IncorrectInput  ErrIncorrectInputValue
\*   Complete        "processing already complete"
\*   EOF             io.EOF
\*   Text            the error UnmarshalText returned
Err(kind, line, got, want, field, ftype, value) ==
    [kind |-> kind, line |-> line, got |-> got, want |-> want,
     field |-> field, ftype |-> ftype, value |-> value]

NoErr == Err("nil", 0, 0, 0, "", "", <<>>)
RegexpErr == Err("Regexp", 0, 0, 0, "", "", <<>>)
ErrIncorrectInputValue == Err("IncorrectInput", 0, 0, 0, "", "", <<>>)
ErrComplete == Err("Complete", 0, 0, 0, "", "", <<>>)
EOF == Err("EOF", 0, 0, 0, "", "", <<>>)
LengthErr(lineNum, lineLen, headersLength) ==
    Err("LengthMismatch", lineNum, lineLen, headersLength, "", "", <<>>)
InvalidTypeError(f) == Err("InvalidType", 0, 0, 0, f.name, f.typ, <<>>)
CastingError(f, raw) == Err("Casting", 0, 0, 0, f.name, f.typ, raw)
OverflowError(f, v) == Err("Overflow", 0, 0, 0, f.name, f.typ, Numeral(v.neg, v.mag))

\* ------------------------------------------------------------------ struct types

\* A reflect.StructField: its name, the column it refers to (getRefName: the
\* column tag, else the name), the kind of its type (of the pointed-to type
\* when ptr), the printed type, whether it is exported, and which of the type
\* and the pointer to the type implements encoding.TextUnmarshaler.
Field(name, col, kind, ptr, typ, exported, unmarshaler) ==
    [name |-> name, col |-> col, kind |-> kind, ptr |-> ptr, typ |-> typ,
     exported |-> exported, unmarshaler |-> unmarshaler, format |-> ""]

Plain(name, col, kind) == Field(name, col, kind, FALSE, kind, TRUE, "none")

getRefName(f) == f.col

\* The struct types of the model.  id is the identity of the reflect.Type,
\* PkgPath and Name are what t.PkgPath() and t.Name() return.
\*   T1   type T struct { S string; T bool }    declared in one function
\*   T2   type T struct { T bool; S string }    declared in another function
\*                                              of the same package
\*   T3   type T struct { Z B; u bool `column:"T"`; S string }
\*                                              declared in a third function,
\*                                              with B a struct type
\*   Bad  type Bad struct { S string; T B }
\* and the types with one numeric field N, of the kind the type is named by
\* (U64 and F64 hold a pointer: N *uint64, N *float64), and the types with
\* one field N of another type:
\*   PI64 N *int64      PB  N *bool      PS  N *string     S1  N string
\*   Tm   N time.Time `format:"2006"`    PTm N *time.Time `format:"2006"`
\*   DS   N DataSize    PDS N *DataSize  (DataSize is the struct type of the
\*                      tests, with UnmarshalText on the pointer receiver)
\*   Lv   N slog.Level  (an int with UnmarshalText on the pointer receiver)
\* kind "time" stands for time.Time; unmarshaler tells whether the field's
\* type implements encoding.TextUnmarshaler ("type"), or only the pointer to
\* it does ("pointer"); format is the field's format tag, "" when it has none.
Number(id, kind, ptr) ==
    [id |-> id, PkgPath |-> "fw", Name |-> id,
     fields |-> <<Field("N", "N", kind, ptr, IF ptr THEN "*" \o kind ELSE kind,
                        TRUE, "none")>>]

Types ==
    [T1  |-> [id |-> "T1", PkgPath |-> "fw", Name |-> "T",
              fields |-> <<Plain("S", "S", "string"), Plain("T", "T", "bool")>>],
     T2  |-> [id |-> "T2", PkgPath |-> "fw", Name |-> "T",
              fields |-> <<Plain("T", "T", "bool"), Plain("S", "S", "string")>>],
     T3  |-> [id |-> "T3", PkgPath |-> "fw", Name |-> "T",
              fields |-> <<Field("Z", "Z", "struct", FALSE, "fw.B", TRUE, "none"),
                           Field("u", "T", "bool", FALSE, "bool", FALSE, "none"),
                           Plain("S", "S", "string")>>],
     Bad |-> [id |-> "Bad", PkgPath |-> "fw", Name |-> "Bad",
              fields |-> <<Plain("S", "S", "string"),
                           Field("T", "T", "struct", FALSE, "fw.B", TRUE, "none")>>],
     I8  |-> Number("I8", "int8", FALSE),
     I64 |-> Number("I64", "int64", FALSE),
     U8  |-> Number("U8", "uint8", FALSE),
     U64 |-> Number("U64", "uint64", TRUE),
     F32 |-> Number("F32", "float32", FALSE),
     F64 |-> Number("F64", "float64", TRUE),
     PI64 |-> Number("PI64", "int64", TRUE),
     PB  |-> [id |-> "PB", PkgPath |-> "fw", Name |-> "PB",
              fields |-> <<Field("N", "N", "bool", TRUE, "*bool", TRUE, "none")>>],
     PS  |-> [id |-> "PS", PkgPath |-> "fw", Name |-> "PS",
              fields |-> <<Field("N", "N", "string", TRUE, "*string", TRUE, "none")>>],
     S1  |-> [id |-> "S1", PkgPath |-> "fw", Name |-> "S1",
              fields |-> <<Plain("N", "N", "string")>>],
     Tm  |-> [id |-> "Tm", PkgPath |-> "fw", Name |-> "Tm",
              fields |-> <<[Field("N", "N", "time", FALSE, "time.Time", TRUE, "pointer")
                               EXCEPT !.format = "2006"]>>],
     PTm |-> [id |-> "PTm", PkgPath |-> "fw", Name |-> "PTm",
              fields |-> <<[Field("N", "N", "time", TRUE, "*time.Time", TRUE, "type")
                               EXCEPT !.format = "2006"]>>],
     DS  |-> [id |-> "DS", PkgPath |-> "fw", Name |-> "DS",
              fields |-> <<Field("N", "N", "struct", FALSE, "fw.DataSize", TRUE,
                                 "pointer")>>],
     PDS |-> [id |-> "PDS", PkgPath |-> "fw", Name |-> "PDS",
              fields |-> <<Field("N", "N", "struct", TRUE, "*fw.DataSize", TRUE,
                                 "type")>>],
     Lv  |-> [id |-> "Lv", PkgPath |-> "fw", Name |-> "Lv",
              fields |-> <<Field("N", "N", "int", FALSE, "slog.Level", TRUE,
                                 "pointer")>>]]

TypeIds == DOMAIN Types

\* The types with text fields, the types with a numeric field, and the types
\* with one field of each setter.
TextTypes == {"T1", "T2", "Bad"}
RecordTypes == {"T1", "T2", "T3"}
FieldTypes == {"PI64", "U64", "F64", "PB", "PS", "S1", "Tm", "PTm", "DS", "PDS", "Lv"}
NumberTypes == {"I8", "I64", "U8", "U64", "F32", "F64"}

\* ------------------------------------------------------------------ values

\* The value of a struct field: nil (a nil pointer) or the text of the value
\* it holds: the runes of a string, the numeral of a number, true or false.
Val(v) == [nil |-> FALSE, v |-> v]
NilVal == [nil |-> TRUE, v |-> <<>>]

\* The zero value of a field's type.
ZeroOf(f) ==
    IF f.ptr THEN NilVal
    ELSE IF f.kind \in IntKinds \cup UintKinds \cup FloatKinds THEN Val(<<"0">>)
    ELSE IF f.kind = "bool" THEN Val(<<"false">>)
    ELSE Val(<<>>)

\* reflect.New(structType).Elem(): the zero struct, a value per field.
Zero(t) == [i \in 1..Len(Types[t].fields) |-> ZeroOf(Types[t].fields[i])]

\* ------------------------------------------------------------------ setters

\* getFieldSetter with TextUnmarshaler looked for after the kinds.
getFieldSetterKindFirst(f) ==
    IF f.kind = "time"
    THEN [setter |-> IF f.ptr THEN "timeSetPointer" ELSE "timeSet", err |-> NoErr]
    ELSE IF f.kind \in IntKinds
    THEN [setter |-> IF f.ptr THEN "intSetPointer" ELSE "intSet", err |-> NoErr]
    ELSE IF f.kind \in FloatKinds
    THEN [setter |-> IF f.ptr THEN "floatSetPointer" ELSE "floatSet", err |-> NoErr]
    ELSE IF f.kind \in UintKinds
    THEN [setter |-> IF f.ptr THEN "uintSetPointer" ELSE "uintSet", err |-> NoErr]
    ELSE IF f.kind = "string"
    THEN [setter |-> IF f.ptr THEN "stringSetPointer" ELSE "stringSet", err |-> NoErr]
    ELSE IF f.kind = "bool"
    THEN [setter |-> IF f.ptr THEN "boolSetPointer" ELSE "boolSet", err |-> NoErr]
    ELSE IF f.unmarshaler = "type"
    THEN [setter |-> "textUnmarshalerSet", err |-> NoErr]
    ELSE IF f.unmarshaler = "pointer"
    THEN [setter |-> "textUnmarshalerSetPointer", err |-> NoErr]
    ELSE [setter |-> "nil", err |-> InvalidTypeError(f)]

\* getFieldSetter: the setter of a field, by the classification order of the
\* code: time.Time, then TextUnmarshaler, then the kind.
getFieldSetter(f) ==
    IF f.kind = "time"
    THEN [setter |-> IF f.ptr THEN "timeSetPointer" ELSE "timeSet", err |-> NoErr]
    ELSE IF f.unmarshaler = "type"
    THEN [setter |-> "textUnmarshalerSet", err |-> NoErr]
    ELSE IF f.unmarshaler = "pointer"
    THEN [setter |-> "textUnmarshalerSetPointer", err |-> NoErr]
    ELSE IF f.kind \in IntKinds
    THEN [setter |-> IF f.ptr THEN "intSetPointer" ELSE "intSet", err |-> NoErr]
    ELSE IF f.kind \in FloatKinds
    THEN [setter |-> IF f.ptr THEN "floatSetPointer" ELSE "floatSet", err |-> NoErr]
    ELSE IF f.kind \in UintKinds
    THEN [setter |-> IF f.ptr THEN "uintSetPointer" ELSE "uintSet", err |-> NoErr]
    ELSE IF f.kind = "string"
    THEN [setter |-> IF f.ptr THEN "stringSetPointer" ELSE "stringSet", err |-> NoErr]
    ELSE IF f.kind = "bool"
    THEN [setter |-> IF f.ptr THEN "boolSetPointer" ELSE "boolSet", err |-> NoErr]
    ELSE [setter |-> "nil", err |-> InvalidTypeError(f)]

\* The outcome of one setter call: the field's value afterwards, the error
\* returned, and whether the call panicked (a reflect call on a value of the
\* wrong kind).
Outcome(val, err, panic) == [val |-> val, err |-> err, panic |-> panic]

\* intSet and intSetPointer.  actual is the field the value is stored in,
\* decl the StructField bound at compile time (cited in errors).
intSet(actual, decl, old, raw) ==
    LET p == ParseInt(raw)
    IN IF p.err # "nil" THEN Outcome(old, CastingError(decl, raw), FALSE)
       ELSE IF actual.kind \notin IntKinds \/ actual.ptr
       THEN Outcome(old, NoErr, TRUE)
       ELSE IF OverflowInt(actual.kind, p)
       THEN Outcome(old, OverflowError(decl, p), FALSE)
       ELSE Outcome(Val(Numeral(p.neg, p.mag)), NoErr, FALSE)

intSetPointer(actual, decl, old, raw) ==
    LET p == ParseInt(raw)
    IN IF p.err # "nil" THEN Outcome(old, CastingError(decl, raw), FALSE)
       ELSE IF actual.kind \notin IntKinds \/ ~actual.ptr
       THEN Outcome(old, NoErr, TRUE)
       ELSE IF OverflowInt(actual.kind, p)
       THEN Outcome(old, OverflowError(decl, p), FALSE)
       ELSE Outcome(Val(Numeral(p.neg, p.mag)), NoErr, FALSE)

\* uintSet and uintSetPointer: the raw value is first trimmed of white space.
uintSet(actual, decl, old, raw) ==
    LET trimmed == TrimSpace(raw)
        p == ParseUint(trimmed)
    IN IF p.err # "nil" THEN Outcome(old, CastingError(decl, trimmed), FALSE)
       ELSE IF actual.kind \notin UintKinds \/ actual.ptr
       THEN Outcome(old, NoErr, TRUE)
       ELSE IF OverflowUint(actual.kind, p)
       THEN Outcome(old, OverflowError(decl, p), FALSE)
       ELSE Outcome(Val(p.mag), NoErr, FALSE)

uintSetPointer(actual, decl, old, raw) ==
    LET trimmed == TrimSpace(raw)
        p == ParseUint(trimmed)
    IN IF p.err # "nil" THEN Outcome(old, CastingError(decl, trimmed), FALSE)
       ELSE IF actual.kind \notin UintKinds \/ ~actual.ptr
       THEN Outcome(old, NoErr, TRUE)
       ELSE IF OverflowUint(actual.kind, p)
       THEN Outcome(old, OverflowError(decl, p), FALSE)
       ELSE Outcome(Val(p.mag), NoErr, FALSE)

floatSet(actual, decl, old, raw) ==
    LET p == ParseFloat(raw)
    IN IF p.err # "nil" THEN Outcome(old, CastingError(decl, raw), FALSE)
       ELSE IF actual.kind \notin FloatKinds \/ actual.ptr
       THEN Outcome(old, NoErr, TRUE)
       ELSE IF OverflowFloat(actual.kind, p)
       THEN Outcome(old, OverflowError(decl, p), FALSE)
       ELSE Outcome(Val(Numeral(p.neg, p.mag)), NoErr, FALSE)

floatSetPointer(actual, decl, old, raw) ==
    LET p == ParseFloat(raw)
    IN IF p.err # "nil" THEN Outcome(old, CastingError(decl, raw), FALSE)
       ELSE IF actual.kind \notin FloatKinds \/ ~actual.ptr
       THEN Outcome(old, NoErr, TRUE)
       ELSE IF OverflowFloat(actual.kind, p)
       THEN Outcome(old, OverflowError(decl, p), FALSE)
       ELSE Outcome(Val(Numeral(p.neg, p.mag)), NoErr, FALSE)

stringSet(actual, decl, old, raw) ==
    IF actual.kind # "string" \/ actual.ptr THEN Outcome(old, NoErr, TRUE)
    ELSE Outcome(Val(raw), NoErr, FALSE)

stringSetPointer(actual, decl, old, raw) ==
    IF actual.kind # "string" \/ ~actual.ptr THEN Outcome(old, NoErr, TRUE)
    ELSE Outcome(Val(raw), NoErr, FALSE)

\* parseBool: yes and no in three spellings, else strconv.ParseBool.
parseBool(raw) ==
    LET str == Str(raw)
    IN IF str \in {"yes", "YES", "Yes", "1", "t", "T", "TRUE", "true", "True"}
       THEN [err |-> "nil", value |-> <<"true">>]
       ELSE IF str \in {"no", "NO", "No", "0", "f", "F", "FALSE", "false", "False"}
       THEN [err |-> "nil", value |-> <<"false">>]
       ELSE [err |-> "syntax", value |-> <<"false">>]

boolSet(actual, decl, old, raw) ==
    LET p == parseBool(raw)
    IN IF p.err # "nil" THEN Outcome(old, CastingError(decl, raw), FALSE)
       ELSE IF actual.kind # "bool" \/ actual.ptr THEN Outcome(old, NoErr, TRUE)
       ELSE Outcome(Val(p.value), NoErr, FALSE)

\* boolSetPointer binding the field to new storage before the text is parsed.
boolSetPointerBindingFirst(actual, decl, old, raw) ==
    IF parseBool(raw).err # "nil"
    THEN Outcome(Val(<<>>), CastingError(decl, raw), FALSE)
    ELSE IF actual.kind # "bool" \/ ~actual.ptr THEN Outcome(old, NoErr, TRUE)
    ELSE Outcome(Val(parseBool(raw).value), NoErr, FALSE)

boolSetPointer(actual, decl, old, raw) ==
    LET p == parseBool(raw)
    IN IF p.err # "nil" THEN Outcome(old, CastingError(decl, raw), FALSE)
       ELSE IF actual.kind # "bool" \/ ~actual.ptr THEN Outcome(old, NoErr, TRUE)
       ELSE Outcome(Val(p.value), NoErr, FALSE)

\* time.Parse(timeFormat, rawValue) for the layout "2006", a year of four
\* digits, and for time.RFC3339, which no text of fewer than 20 characters
\* satisfies (the texts of the model are shorter).
ParseTime(timeFormat, raw) ==
    IF timeFormat = "2006" /\ Len(raw) = 4 /\ IsDigits(raw)
    THEN [err |-> "nil", value |-> raw]
    ELSE [err |-> "parse", value |-> <<>>]

\* The closures of createTimeSet and createTimeSetPointer: the format is the
\* tag of the StructField the setter was created for, time.RFC3339 without.
createTimeSet(actual, decl, old, raw) ==
    IF ParseTime(decl.format, raw).err # "nil"
    THEN Outcome(old, CastingError(decl, raw), FALSE)
    ELSE IF actual.kind # "time" \/ actual.ptr THEN Outcome(old, NoErr, TRUE)
    ELSE Outcome(Val(ParseTime(decl.format, raw).value), NoErr, FALSE)

createTimeSetPointer(actual, decl, old, raw) ==
    IF ParseTime(decl.format, raw).err # "nil"
    THEN Outcome(old, CastingError(decl, raw), FALSE)
    ELSE IF actual.kind # "time" \/ ~actual.ptr THEN Outcome(old, NoErr, TRUE)
    ELSE Outcome(Val(ParseTime(decl.format, raw).value), NoErr, FALSE)

\* The end of the longest run of runes of set that starts after the first k
\* runes of s.
RunEnd(s, k, set) ==
    CHOOSE m \in k..Len(s) : /\ \A j \in (k + 1)..m : s[j] \in set
                             /\ (m = Len(s) \/ s[m + 1] \notin set)

\* The match of DataSize's pattern (?i)(\d+(?:\.\d+))\s*(mi?b|gi?b|...) that
\* starts after the first a runes of s: digits, a point, digits, white space
\* and a unit of two or three letters; ok tells whether there is one.
DataSizeAt(s, a) ==
    LET b == RunEnd(s, a, Digits)
        c == IF b < Len(s) THEN RunEnd(s, b + 1, Digits) ELSE b
        e == RunEnd(s, c, {Space, NL, "\t"})
        i == IF e + 2 <= Len(s) /\ s[e + 2] \in {"i", "I"} THEN 1 ELSE 0
    IN [ok |-> /\ b > a /\ b < Len(s) /\ s[b + 1] = "." /\ c > b + 1
               /\ e + 2 + i <= Len(s)
               /\ s[e + 1] \in {"m", "g", "t", "k", "p", "z", "M", "G", "T", "K", "P", "Z"}
               /\ s[e + 2 + i] \in {"b", "B"},
        Value |-> SubSeq(s, a + 1, c),
        Units |-> IF e + 2 + i <= Len(s) THEN SubSeq(s, e + 1, e + 2 + i) ELSE <<>>]

\* UnmarshalText of the field's type on the value old: DataSize's (the first
\* match of its pattern gives Value and Units, none is an error and leaves
\* the value as it is) and slog.Level's (the name of a level, in any case,
\* here without an offset).
UnmarshalText(typ, old, raw) ==
    IF typ = "slog.Level"
    THEN IF Str(raw) \in {"INFO", "info", "Info"} THEN [val |-> Val(<<"0">>), err |-> NoErr]
         ELSE IF Str(raw) \in {"WARN", "warn", "Warn"} THEN [val |-> Val(<<"4">>), err |-> NoErr]
         ELSE [val |-> old, err |-> Err("slog: level string: unknown name", 0, 0, 0, "", "", raw)]
    ELSE IF \E a \in 0..(Len(raw) - 1) : DataSizeAt(raw, a).ok
    THEN [val |-> Val(DataSizeAt(raw, CHOOSE a \in 0..(Len(raw) - 1) :
                                        /\ DataSizeAt(raw, a).ok
                                        /\ \A x \in 0..(a - 1) : ~DataSizeAt(raw, x).ok).Value
                      \o DataSizeAt(raw, CHOOSE a \in 0..(Len(raw) - 1) :
                                        /\ DataSizeAt(raw, a).ok
                                        /\ \A x \in 0..(a - 1) : ~DataSizeAt(raw, x).ok).Units),
          err |-> NoErr]
    ELSE [val |-> old, err |-> Err("fw: can't parse as datasize", 0, 0, 0, "", "", raw)]

\* textUnmarshalerSet with the error of UnmarshalText wrapped in a
\* CastingError, and nothing allocated when it fails.
textUnmarshalerSetWrapping(actual, decl, old, raw) ==
    IF actual.unmarshaler # "type"
    THEN Outcome(IF actual.ptr /\ old.nil THEN Val(<<>>) ELSE old, NoErr, TRUE)
    ELSE IF UnmarshalText(actual.typ, Val(<<>>), raw).err # NoErr
    THEN Outcome(old, CastingError(decl, raw), FALSE)
    ELSE Outcome(UnmarshalText(actual.typ, Val(<<>>), raw).val, NoErr, FALSE)

\* textUnmarshalerSet, bound to a field whose type implements TextUnmarshaler:
\* a nil pointer is first set to a new zero value, then the field's value is
\* asserted to be a TextUnmarshaler (which panics when it is none) and
\* UnmarshalText is called on it; its error is returned as it is.
textUnmarshalerSet(actual, decl, old, raw) ==
    IF actual.unmarshaler # "type"
    THEN Outcome(IF actual.ptr /\ old.nil THEN Val(<<>>) ELSE old, NoErr, TRUE)
    ELSE Outcome(UnmarshalText(actual.typ, IF actual.ptr /\ old.nil THEN Val(<<>>) ELSE old,
                               raw).val,
                 UnmarshalText(actual.typ, IF actual.ptr /\ old.nil THEN Val(<<>>) ELSE old,
                               raw).err, FALSE)

\* textUnmarshalerSetPointer, bound to a field whose type implements
\* TextUnmarshaler through its pointer: field.Addr() is never nil, so nothing
\* is allocated.
textUnmarshalerSetPointer(actual, decl, old, raw) ==
    IF actual.unmarshaler # "pointer" THEN Outcome(old, NoErr, TRUE)
    ELSE Outcome(UnmarshalText(actual.typ, old, raw).val,
                 UnmarshalText(actual.typ, old, raw).err, FALSE)

\* The call setter(fieldVal, currentField, rawField) of valueSetterFunc.
CallSetter(setter, actual, decl, old, raw) ==
    CASE setter = "intSet" -> intSet(actual, decl, old, raw)
      [] setter = "intSetPointer" -> intSetPointer(actual, decl, old, raw)
      [] setter = "uintSet" -> uintSet(actual, decl, old, raw)
      [] setter = "uintSetPointer" -> uintSetPointer(actual, decl, old, raw)
      [] setter = "floatSet" -> floatSet(actual, decl, old, raw)
      [] setter = "floatSetPointer" -> floatSetPointer(actual, decl, old, raw)
      [] setter = "stringSet" -> stringSet(actual, decl, old, raw)
      [] setter = "stringSetPointer" -> stringSetPointer(actual, decl, old, raw)
      [] setter = "boolSet" -> boolSet(actual, decl, old, raw)
      [] setter = "boolSetPointer" -> boolSetPointer(actual, decl, old, raw)
      [] setter = "timeSet" -> createTimeSet(actual, decl, old, raw)
      [] setter = "timeSetPointer" -> createTimeSetPointer(actual, decl, old, raw)
      [] setter = "textUnmarshalerSet" -> textUnmarshalerSet(actual, decl, old, raw)
      [] setter = "textUnmarshalerSetPointer" ->
            textUnmarshalerSetPointer(actual, decl, old, raw)

\* ------------------------------------------------------------------ plans

\* A structSetter: nil, or the closure structSetterFunc returns, which holds
\* the value setters of the mapped fields in field order.  A step holds what
\* valueSetterFunc captured: the field index, the range, the separator of the
\* two trimmers, the setter and the StructField.
NilSetter == [isNil |-> TRUE, steps |-> <<>>]
StructSetter(steps) == [isNil |-> FALSE, steps |-> steps]

\* createStructSetter from field fieldIndex on (0-based, as in the code): the
\* steps of the exported fields whose column is in indices, or the error of
\* the first such field without a setter.
RECURSIVE createSteps(_, _, _, _)
createSteps(t, indices, fieldSeparator, fieldIndex) ==
    IF fieldIndex >= Len(Types[t].fields) THEN [steps |-> <<>>, err |-> NoErr]
    ELSE LET currentField == Types[t].fields[fieldIndex + 1]
             rest == createSteps(t, indices, fieldSeparator, fieldIndex + 1)
         IN IF ~currentField.exported \/ getRefName(currentField) \notin DOMAIN indices
            THEN rest
            ELSE LET g == getFieldSetter(currentField)
                     index == indices[getRefName(currentField)]
                 IN IF g.err # NoErr THEN [steps |-> <<>>, err |-> g.err]
                    ELSE IF rest.err # NoErr THEN rest
                    ELSE [steps |-> <<[idx |-> fieldIndex, from |-> index[1],
                                       to |-> index[2], sep |-> fieldSeparator,
                                       setter |-> g.setter,
                                       field |-> currentField]>> \o rest.steps,
                          err |-> NoErr]

\* What createStructSetter returns for the steps and error c of createSteps.
Compiled(c) ==
    IF c.err # NoErr
    THEN [setter |-> NilSetter, err |-> c.err, panic |-> FALSE]
    ELSE [setter |-> StructSetter(c.steps), err |-> NoErr, panic |-> FALSE]

\* createStructSetter: regexp.MustCompile panics on an invalid separator.
createStructSetter(t, indices, fieldSeparator) ==
    IF ~ValidPattern(fieldSeparator)
    THEN [setter |-> NilSetter, err |-> NoErr, panic |-> TRUE]
    ELSE Compiled(createSteps(t, indices, fieldSeparator, 0))

\* The key of structSetterCache: "%s.%s:%v:%s" of the type's package path and
\* name, the layout and the separator.
CacheKey(t, indices, fieldSeparator) ==
    [PkgPath |-> Types[t].PkgPath, Name |-> Types[t].Name,
     indices |-> indices, sep |-> fieldSeparator]

\* The end of cachedStructSetter with Store in place of LoadOrStore: the
\* setter compiled is stored whatever the cache holds, and returned.
StoreLatest(cache, key, c) ==
    IF c.panic \/ c.err # NoErr
    THEN [setter |-> NilSetter, err |-> c.err, panic |-> c.panic, cache |-> cache]
    ELSE [setter |-> c.setter, err |-> NoErr, panic |-> FALSE,
          cache |-> [k \in DOMAIN cache \cup {key} |->
                       IF k = key THEN c.setter ELSE cache[k]]]

\* The end of cachedStructSetter after a miss: c is what createStructSetter
\* returned; a setter is stored under key and returned, an error stores
\* nothing.
LoadOrStore(cache, key, c) ==
    IF c.panic \/ c.err # NoErr
    THEN [setter |-> NilSetter, err |-> c.err, panic |-> c.panic, cache |-> cache]
    ELSE [setter |-> IF key \in DOMAIN cache THEN cache[key] ELSE c.setter,
          err |-> NoErr, panic |-> FALSE,
          cache |-> [k \in DOMAIN cache \cup {key} |->
                       IF k \in DOMAIN cache THEN cache[k] ELSE c.setter]]

\* cachedStructSetter on the cache given: the setter and error returned and
\* the cache afterwards.
cachedStructSetter(cache, t, indices, fieldSeparator) ==
    IF CacheKey(t, indices, fieldSeparator) \in DOMAIN cache
    THEN [setter |-> cache[CacheKey(t, indices, fieldSeparator)], err |-> NoErr,
          panic |-> FALSE, cache |-> cache]
    ELSE LoadOrStore(cache, CacheKey(t, indices, fieldSeparator),
                     createStructSetter(t, indices, fieldSeparator))

\* cap([]rune(line)) for a line of n runes: rawruneslice rounds the 4n bytes
\* up to a malloc size class (8, 16, 24, 32, 48, 64, ...) and clears the tail.
RuneCap(n) ==
    IF n = 0 THEN 0
    ELSE IF 4 * n <= 32 THEN (8 * ((4 * n + 7) \div 8)) \div 4
    ELSE (16 * ((4 * n + 15) \div 16)) \div 4

\* The zero rune.
NUL == "NUL"

\* line[from:to] of valueSetterFunc: the runes of the range, the runes past
\* len(line) and within the capacity being zero.
FieldRunes(line, from, to) ==
    [i \in 1..(to - from) |-> IF from + i <= Len(line) THEN line[from + i] ELSE NUL]

\* The item after the setter of the field at idx returned o.
SetField(item, idx, o) ==
    [item |-> [item EXCEPT ![idx + 1] = o.val], err |-> o.err, panic |-> o.panic]

\* The closure of valueSetterFunc applied to item (of type t) and line: the
\* field, the runes of the range, the two trimmers, the setter.
valueSetterFunc(step, t, item, line) ==
    IF step.idx >= Len(Types[t].fields)
       \/ step.from < 0 \/ step.from > step.to \/ step.to > RuneCap(Len(line))
    THEN [item |-> item, err |-> NoErr, panic |-> TRUE]
    ELSE SetField(item, step.idx,
                  CallSetter(step.setter, Types[t].fields[step.idx + 1], step.field,
                             item[step.idx + 1],
                             TrimRight(TrimLeft(FieldRunes(line, step.from, step.to),
                                                step.sep), step.sep)))

\* The closure of structSetterFunc: the steps in order up to the first error
\* (r is what the first step returned, rest the steps after it).
RECURSIVE structSetterFunc(_, _, _, _)
RECURSIVE structSetterNext(_, _, _, _)
structSetterNext(r, rest, t, line) ==
    IF r.panic \/ r.err # NoErr THEN r ELSE structSetterFunc(rest, t, r.item, line)

structSetterFunc(steps, t, item, line) ==
    IF steps = <<>> THEN [item |-> item, err |-> NoErr, panic |-> FALSE]
    ELSE structSetterNext(valueSetterFunc(Head(steps), t, item, line), Tail(steps),
                          t, line)

\* decoder.lastSetter(item, line): calling a nil func panics.
CallStructSetter(setter, t, item, line) ==
    IF setter.isNil THEN [item |-> item, err |-> NoErr, panic |-> TRUE]
    ELSE structSetterFunc(setter.steps, t, item, line)

\* ------------------------------------------------------------------ the session

VARIABLES
    input,             \* the runes the session's reader delivers
    cursor,            \* scanner: the runes of input consumed so far
    RecordTerminator,  \* Decoder.RecordTerminator
    FieldSeparator,    \* Decoder.FieldSeparator
    done,              \* Decoder.done
    headersParsed,     \* Decoder.headersParsed
    headersLength,     \* Decoder.headersLength
    SkipFirstRecord,   \* Decoder.SkipFirstRecord
    lineNum,           \* Decoder.lineNum
    headers,           \* Decoder.headers: column name -> <<from, to>>
    lastType,          \* Decoder.lastType: a type id, or "nil"
    lastSetter,        \* Decoder.lastSetter
    structSetterCache, \* the process-wide sync.Map: key -> structSetter
    crashed,           \* the process has panicked
    uses,              \* history: how each record scanned so far was used
    explicit,          \* history: SetHeaders has been called
    setup,             \* history: how the session has been configured
    call,              \* history: the last Decode call and its outcome
    tokens,            \* history: the records the scanner has delivered
    goroutines,        \* the cachedStructSetter calls in progress
    compiles           \* history: struct type -> successful createStructSetter
                       \* runs of those calls

vars == <<input, cursor, RecordTerminator, FieldSeparator, done, headersParsed,
          headersLength, SkipFirstRecord, lineNum, headers, lastType, lastSetter,
          structSetterCache, crashed, uses, explicit, setup, call, tokens,
          goroutines, compiles>>

\* The fields of the Decoder (and the history of its scans) that a Decode
\* call reads and writes, as one record the operators below pass along.
Dec == [cursor |-> cursor, done |-> done, headersParsed |-> headersParsed,
        headersLength |-> headersLength, SkipFirstRecord |-> SkipFirstRecord,
        lineNum |-> lineNum, headers |-> headers, lastType |-> lastType,
        lastSetter |-> lastSetter, uses |-> uses, tokens |-> tokens]

\* scan advancing by one byte past the start of the terminator, whatever the
\* length of the terminator.
scanOneByte(data, atEOF) ==
    IF atEOF /\ data = <<>>
    THEN [advance |-> 0, token |-> <<>>, hasToken |-> FALSE]
    ELSE IF Index(data, RecordTerminator) >= 0
    THEN [advance |-> Index(data, RecordTerminator) + 1,
          token |-> SubSeq(data, 1, Index(data, RecordTerminator)),
          hasToken |-> TRUE]
    ELSE IF atEOF
    THEN [advance |-> Len(data), token |-> data, hasToken |-> TRUE]
    ELSE [advance |-> 0, token |-> <<>>, hasToken |-> FALSE]

\* Decoder.scan, the split function of the scanner.
scan(data, atEOF) ==
    IF atEOF /\ data = <<>>
    THEN [advance |-> 0, token |-> <<>>, hasToken |-> FALSE]
    ELSE IF Index(data, RecordTerminator) >= 0
    THEN [advance |-> Index(data, RecordTerminator) + Len(RecordTerminator),
          token |-> SubSeq(data, 1, Index(data, RecordTerminator)),
          hasToken |-> TRUE]
    ELSE IF atEOF
    THEN [advance |-> Len(data), token |-> data, hasToken |-> TRUE]
    ELSE [advance |-> 0, token |-> <<>>, hasToken |-> FALSE]

\* The scanner after the split function returned tok.
Scanned(d, tok) ==
    [ok |-> tok.hasToken, text |-> tok.token,
     d |-> [d EXCEPT !.cursor = d.cursor + tok.advance,
                     !.tokens = IF tok.hasToken THEN Append(@, tok.token) ELSE @]]

\* The data the scanner has not consumed.
Unread(d) == SubSeq(input, d.cursor + 1, Len(input))

\* decoder.scanner.Scan() and decoder.scanner.Text(): the split function on the
\* unread data when there is some, and at end of input when there is none or
\* when it asked for more.
Scan(d) ==
    Scanned(d, IF Unread(d) # <<>> /\ scan(Unread(d), FALSE).hasToken
               THEN scan(Unread(d), FALSE)
               ELSE scan(Unread(d), TRUE))

\* Decoder.parseHeaders after decoder.scanner.Scan() returned s.
parseHeadersScanned(d, s) ==
    IF ~s.ok THEN [d |-> [s.d EXCEPT !.done = TRUE], err |-> NoErr]
    ELSE IF d.headersParsed /\ d.SkipFirstRecord
    THEN [d |-> [s.d EXCEPT !.lineNum = @ + 1, !.uses = Append(@, "skipped")],
          err |-> NoErr]
    ELSE [d |-> [s.d EXCEPT !.lineNum = @ + 1,
                            !.headersLength = Len(s.text),
                            !.headers = HeaderMap(s.text, FieldSeparator),
                            !.headersParsed = TRUE,
                            !.uses = Append(@, "header")],
          err |-> NoErr]

\* parseHeaders without the return for a layout that is already resolved.
parseHeadersAgain(d) ==
    IF ~ValidPattern(FieldSeparator) THEN [d |-> d, err |-> RegexpErr]
    ELSE parseHeadersScanned(d, Scan(d))

\* Decoder.parseHeaders: the Decoder afterwards and the error returned.
parseHeaders(d) ==
    IF d.headersParsed /\ ~d.SkipFirstRecord THEN [d |-> d, err |-> NoErr]
    ELSE IF ~ValidPattern(FieldSeparator) THEN [d |-> d, err |-> RegexpErr]
    ELSE parseHeadersScanned(d, Scan(d))

\* What readLine returns: the Decoder, the cache and the item afterwards, the
\* (error, bool) pair, whether the call panicked, and (history) the line
\* number and the setter applied to the record, if one was.
Line(d, cache, item, err, ok, panic, applied) ==
    [d |-> d, cache |-> cache, item |-> item, err |-> err, ok |-> ok,
     panic |-> panic, applied |-> applied]

NotApplied == [line |-> 0, setter |-> NilSetter]

\* The end of readLine: r is what decoder.lastSetter(item, line) returned.
readLineSet(d, cache, r) ==
    Line(d, cache, r.item, r.err, TRUE, r.panic,
         [line |-> d.lineNum, setter |-> d.lastSetter])

\* readLine when the type is not decoder.lastType: lastType is set, and c is
\* what cachedStructSetter returned.
readLineCached(d, t, item, line, c) ==
    IF c.panic
    THEN Line([d EXCEPT !.lastType = t], c.cache, item, NoErr, FALSE, TRUE, NotApplied)
    ELSE IF c.err # NoErr
    THEN Line([d EXCEPT !.lastType = t, !.lastSetter = c.setter], c.cache, item,
              c.err, FALSE, FALSE, NotApplied)
    ELSE readLineSet([d EXCEPT !.lastType = t, !.lastSetter = c.setter], c.cache,
                     CallStructSetter(c.setter, t, item, line))

\* readLine after the record line was scanned and counted.
readLineScanned(d, cache, t, item, line) ==
    IF Len(line) # d.headersLength
    THEN Line(d, cache, item, LengthErr(d.lineNum, Len(line), d.headersLength),
              FALSE, FALSE, NotApplied)
    ELSE IF t # d.lastType
    THEN readLineCached(d, t, item, line,
                        cachedStructSetter(cache, t, d.headers, FieldSeparator))
    ELSE readLineSet(d, cache, CallStructSetter(d.lastSetter, t, item, line))

\* readLine after decoder.scanner.Scan() returned s.
readLineScan(cache, t, item, s) ==
    IF ~s.ok
    THEN Line([s.d EXCEPT !.done = TRUE], cache, item, NoErr, FALSE, FALSE, NotApplied)
    ELSE readLineScanned([s.d EXCEPT !.lineNum = @ + 1, !.uses = Append(@, "data")],
                         cache, t, item, s.text)

\* Decoder.readLine into item, a value of type t.
readLine(d, cache, t, item) == readLineScan(cache, t, item, Scan(d))

\* What Decode has at its end: the Decoder, the cache and the value v points
\* to afterwards, the (error, bool) pair of readLine or readLines, whether
\* the call panicked, and (history) the setters applied, in order.
Read(d, cache, val, err, ok, panic, applied) ==
    [d |-> d, cache |-> cache, val |-> val, err |-> err, ok |-> ok,
     panic |-> panic, applied |-> applied]

Applied(applied, r) ==
    IF r.applied.line # 0 THEN Append(applied, r.applied) ELSE applied

\* Decoder.readLines: readLine into new elements of type t until the stream
\* is exhausted or a record fails; the elements decoded are appended to slice
\* (r is what readLine returned for the new element).
\* (ptr: the elements of the slice are pointers and nv.Addr() is appended; a
\* pointer is written as the struct it points to behind the mark &.)
Elem(ptr, item) == IF ptr THEN <<Val(<<"&">>)>> \o item ELSE item

RECURSIVE readLines(_, _, _, _, _, _)
RECURSIVE readLinesNext(_, _, _, _, _)
\* readLinesNext with the element of the failing record appended as well.
readLinesKeepingFailed(r, t, ptr, slice, applied) ==
    IF r.panic \/ r.err # NoErr
    THEN Read(r.d, r.cache, Append(slice, Elem(ptr, r.item)), r.err, FALSE, r.panic,
              Applied(applied, r))
    ELSE IF r.d.done
    THEN Read(r.d, r.cache,
              IF r.ok THEN Append(slice, Elem(ptr, r.item)) ELSE slice, NoErr,
              TRUE, FALSE, Applied(applied, r))
    ELSE readLines(r.d, r.cache, t, ptr,
                   IF r.ok THEN Append(slice, Elem(ptr, r.item)) ELSE slice,
                   Applied(applied, r))

readLinesNext(r, t, ptr, slice, applied) ==
    IF r.panic \/ r.err # NoErr
    THEN Read(r.d, r.cache, slice, r.err, FALSE, r.panic, Applied(applied, r))
    ELSE IF r.d.done
    THEN Read(r.d, r.cache,
              IF r.ok THEN Append(slice, Elem(ptr, r.item)) ELSE slice, NoErr,
              TRUE, FALSE, Applied(applied, r))
    ELSE readLines(r.d, r.cache, t, ptr,
                   IF r.ok THEN Append(slice, Elem(ptr, r.item)) ELSE slice,
                   Applied(applied, r))

readLines(d, cache, t, ptr, slice, applied) ==
    readLinesNext(readLine(d, cache, t, Zero(t)), t, ptr, slice, applied)

\* The values Decode is called with.  shape tells what v is: a pointer to a
\* struct, to a slice of structs or to a slice of pointers to structs of type
\* t holding val, or one of the values Decode rejects: a nil pointer (or no
\* pointer at all), a pointer to a scalar, a pointer to a slice of scalars.
Target(shape, t, val) == [shape |-> shape, t |-> t, val |-> val]

InvalidShapes == {"nilpointer", "scalar", "scalarslice"}

\* What Decode returns and leaves behind.
Decoded(d, cache, val, err, panic, applied) ==
    [d |-> d, cache |-> cache, val |-> val, err |-> err, panic |-> panic,
     applied |-> applied]

\* The end of Decode without the io.EOF rule.
DecodeReturnErr(r) == Decoded(r.d, r.cache, r.val, r.err, r.panic, r.applied)

\* The end of Decode: io.EOF when the stream is exhausted and nothing was
\* read, else the error of readLine or readLines.
DecodeReturn(r) ==
    Decoded(r.d, r.cache, r.val,
            IF r.d.done /\ r.err = NoErr /\ ~r.ok THEN EOF ELSE r.err,
            r.panic, r.applied)

\* readLine for Decode into a struct.
readOne(r) == Read(r.d, r.cache, r.item, r.err, r.ok, r.panic, Applied(<<>>, r))

\* Decode after parseHeaders returned h.
DecodeParsed(h, cache, v) ==
    IF h.err # NoErr THEN Decoded(h.d, cache, v.val, h.err, FALSE, <<>>)
    ELSE IF v.shape = "struct"
    THEN DecodeReturn(readOne(readLine(h.d, cache, v.t, v.val)))
    ELSE DecodeReturn(readLines(h.d, cache, v.t, v.shape = "ptrslice", v.val, <<>>))

\* Decode with the target checked after parseHeaders instead of before it.
DecodeOpLate(d, cache, v) ==
    IF d.done THEN Decoded(d, cache, v.val, ErrComplete, FALSE, <<>>)
    ELSE IF v.shape \in InvalidShapes
    THEN Decoded(parseHeaders(d).d, cache, v.val, ErrIncorrectInputValue, FALSE, <<>>)
    ELSE DecodeParsed(parseHeaders(d), cache, v)

\* Decode without the check of decoder.done.
DecodeOpRetrying(d, cache, v) ==
    IF v.shape \in InvalidShapes
    THEN Decoded(d, cache, v.val, ErrIncorrectInputValue, FALSE, <<>>)
    ELSE DecodeParsed(parseHeaders(d), cache, v)

\* Decoder.Decode(v).
DecodeOp(d, cache, v) ==
    IF d.done THEN Decoded(d, cache, v.val, ErrComplete, FALSE, <<>>)
    ELSE IF v.shape \in InvalidShapes
    THEN Decoded(d, cache, v.val, ErrIncorrectInputValue, FALSE, <<>>)
    ELSE DecodeParsed(parseHeaders(d), cache, v)

\* ------------------------------------------------------------------ inputs

\* The records streams are made of.  Row names the columns S and T when it
\* is read as a header, and holds the string S and the boolean T (true) when
\* it is read as data; ShortRow is the same with a narrower second column.
Row == <<"S", Space, "T", Space, Space>>
ShortRow == <<"S", Space, "T">>

RecordPool == {Row, ShortRow}

\* The stream of the records rs, each followed by the record terminator.
RECURSIVE Join(_, _)
Join(rs, term) == IF rs = <<>> THEN <<>> ELSE Head(rs) \o term \o Join(Tail(rs), term)

RecordSeqs == UNION {[1..n -> RecordPool] : n \in 0..MaxRecords}

Streams == {Join(rs, <<NL>>) : rs \in RecordSeqs}

\* The layout passed to SetHeaders: the columns of ShortRow.
ExplicitLayouts == {[S |-> <<0, 2>>, T |-> <<2, 3>>]}

\* The values of Decoder.FieldSeparator: the default and an invalid pattern.
Separators == {Space, "("}

\* The values passed to Decode.
Targets ==
    {Target("struct", t, Zero(t)) : t \in TextTypes}
    \cup {Target("slice", "T1", <<>>)}
    \cup {Target(shape, "T1", <<>>) : shape \in InvalidShapes}

\* ------------------------------------------------------------------ actions

\* The last call: the operation, the value passed and what it holds
\* afterwards, the error returned, the setters applied, and the number of
\* records the session had scanned before the call.
Call(op, v, val, err, applied, first) ==
    [op |-> op, v |-> v, val |-> val, err |-> err, applied |-> applied,
     first |-> first]

NoTarget == Target("none", "T1", <<>>)

\* NewDecoder(r) for a reader r over the stream given.
NewDecoder(stream) ==
    /\ input = stream
    /\ cursor = 0
    /\ RecordTerminator = <<NL>>
    /\ FieldSeparator = Space
    /\ done = FALSE
    /\ headersParsed = FALSE
    /\ headersLength = 0
    /\ SkipFirstRecord = FALSE
    /\ lineNum = 0
    /\ headers = <<>>
    /\ lastType = "nil"
    /\ lastSetter = NilSetter
    /\ structSetterCache = <<>>
    /\ crashed = FALSE
    /\ uses = <<>>
    /\ explicit = FALSE
    /\ setup = "default"
    /\ call = Call("NewDecoder", NoTarget, <<>>, NoErr, <<>>, 0)
    /\ tokens = <<>>

\* The cachedStructSetter calls in progress when the session starts (none
\* where the model follows one session).
Calls(g) == goroutines = g /\ compiles = <<>>

Init == \E stream \in Streams : NewDecoder(stream) /\ Calls(<<>>)

\* The session after a Decode(v) call that ended as r.
Returned(v, r) ==
    /\ cursor' = r.d.cursor
    /\ done' = r.d.done
    /\ headersParsed' = r.d.headersParsed
    /\ headersLength' = r.d.headersLength
    /\ SkipFirstRecord' = r.d.SkipFirstRecord
    /\ lineNum' = r.d.lineNum
    /\ headers' = r.d.headers
    /\ lastType' = r.d.lastType
    /\ lastSetter' = r.d.lastSetter
    /\ uses' = r.d.uses
    /\ tokens' = r.d.tokens
    /\ structSetterCache' = r.cache
    /\ crashed' = r.panic
    /\ call' = Call("Decode", v, r.val, r.err, r.applied, Len(uses))

\* decoder.Decode(v)
Decode(v) ==
    /\ ~crashed
    /\ Returned(v, DecodeOp(Dec, structSetterCache, v))
    /\ UNCHANGED <<input, RecordTerminator, FieldSeparator, explicit, setup,
                   goroutines, compiles>>

\* The largest range end of a layout (0 for the empty layout).
MaxEnd(h) ==
    IF DOMAIN h = {} THEN 0
    ELSE CHOOSE e \in {h[n][2] : n \in DOMAIN h} : \A n \in DOMAIN h : h[n][2] <= e

\* decoder.SetHeaders(h): headersLength grows to the largest range end.
SetHeaders(h) ==
    /\ ~crashed
    /\ headers' = h
    /\ headersLength' = IF MaxEnd(h) > headersLength THEN MaxEnd(h) ELSE headersLength
    /\ headersParsed' = TRUE
    /\ SkipFirstRecord' = FALSE
    /\ explicit' = TRUE
    /\ setup' = IF setup = "default" /\ call.op = "NewDecoder" THEN "explicit"
                ELSE "other"
    /\ UNCHANGED <<input, cursor, RecordTerminator, FieldSeparator, done, lineNum,
                   lastType, lastSetter, structSetterCache, crashed, uses, call,
                   tokens, goroutines, compiles>>

\* decoder.SkipFirstRecord = b
SetSkipFirstRecord(b) ==
    /\ ~crashed
    /\ SkipFirstRecord # b
    /\ SkipFirstRecord' = b
    /\ setup' = IF setup = "explicit" /\ call.op = "NewDecoder" /\ b THEN "skip"
                ELSE "other"
    /\ UNCHANGED <<input, cursor, RecordTerminator, FieldSeparator, done,
                   headersParsed, headersLength, lineNum, headers, lastType,
                   lastSetter, structSetterCache, crashed, uses, explicit, call,
                   tokens, goroutines, compiles>>

\* decoder.FieldSeparator = sep
SetFieldSeparator(sep) ==
    /\ ~crashed
    /\ FieldSeparator # sep
    /\ FieldSeparator' = sep
    /\ UNCHANGED <<input, cursor, RecordTerminator, done, headersParsed,
                   headersLength, SkipFirstRecord, lineNum, headers, lastType,
                   lastSetter, structSetterCache, crashed, uses, explicit, setup,
                   call, tokens, goroutines, compiles>>

\* decoder.RecordTerminator = term
SetRecordTerminator(term) ==
    /\ ~crashed
    /\ RecordTerminator # term
    /\ RecordTerminator' = term
    /\ UNCHANGED <<input, cursor, FieldSeparator, done, headersParsed,
                   headersLength, SkipFirstRecord, lineNum, headers, lastType,
                   lastSetter, structSetterCache, crashed, uses, explicit, setup,
                   call, tokens, goroutines, compiles>>

Next ==
    \/ \E v \in Targets : Decode(v)
    \/ \E h \in ExplicitLayouts : SetHeaders(h)
    \/ \E b \in BOOLEAN : SetSkipFirstRecord(b)
    \/ \E sep \in Separators : SetFieldSeparator(sep)

Spec == Init /\ [][Next]_vars

\* ------------------------------------------------------------------ numeric fields

\* Sessions that decode numbers: the header names the one column N, and every
\* record holds one decimal numeral, padded with the separator to the width of
\* the header.
MaxNumbers == 2

Spaces(n) == [i \in 1..n |-> Space]
Zeros(n) == [i \in 1..n |-> "0"]

\* 127, 128, 2^63, 2^64, 2^128 and 10^309: numerals at, and past, the ranges
\* of the numeric kinds and of the 64 bit parsers.
NumberTexts ==
    {MaxIntMag("int8"), MinIntMag("int8"), MinIntMag("int64"),
     <<"1", "8", "4", "4", "6", "7", "4", "4", "0", "7",
       "3", "7", "0", "9", "5", "5", "1", "6", "1", "6">>,
     <<"3", "4", "0", "2", "8", "2", "3", "6", "6", "9",
       "2", "0", "9", "3", "8", "4", "6", "3", "4", "6",
       "3", "3", "7", "4", "6", "0", "7", "4", "3", "1",
       "7", "6", "8", "2", "1", "1", "4", "5", "6">>,
     <<"1">> \o Zeros(Float64RangeDigits)}

NumberWidth == Float64RangeDigits + 2

Pad(text) == text \o Spaces(NumberWidth - Len(text))

NumberStreams ==
    {Join(<<Pad(<<"N">>)>> \o [i \in DOMAIN texts |-> Pad(texts[i])], <<NL>>) :
        texts \in UNION {[1..n -> NumberTexts] : n \in 1..MaxNumbers}}

NumberTargets == {Target("struct", t, Zero(t)) : t \in NumberTypes}

InitNumbers == \E stream \in NumberStreams : NewDecoder(stream) /\ Calls(<<>>)

NextNumbers == \E v \in NumberTargets : Decode(v)

SpecNumbers == InitNumbers /\ [][NextNumbers]_vars

\* ------------------------------------------------------------------ header records

\* Sessions that infer the layout from a header of two columns, one of which
\* may be named by a multi-byte character; the records after the header
\* repeat it (a header is a record of the right length: S holds a string, T a
\* boolean).
HeaderNames == {<<"S">>, <<"T">>, <<Wide>>}

HeaderLines ==
    {c[1] \o Spaces(c[2]) \o c[3] \o Spaces(c[4]) :
        c \in {x \in HeaderNames \X {1, 2} \X HeaderNames \X {0, 1} : x[1] # x[3]}}

HeaderStreams ==
    {Join([i \in 1..n |-> line], <<NL>>) : line \in HeaderLines, n \in 1..MaxRecords}

HeaderTargets ==
    {Target("struct", "T1", Zero("T1")), Target("struct", "T2", Zero("T2")),
     Target("slice", "T1", <<>>)}

InitHeaders == \E stream \in HeaderStreams : NewDecoder(stream) /\ Calls(<<>>)

NextHeaders == \E v \in HeaderTargets : Decode(v)

SpecHeaders == InitHeaders /\ [][NextHeaders]_vars

\* ------------------------------------------------------------------ data records

\* Sessions with the default configuration over a header (Row) and up to
\* MaxRecords data records: Row, OkRow (the string A and the boolean false) or
\* BadRow (no boolean in column T), decoded into structs and slices that hold
\* values already.
OkRow == <<"A", Space, "F", Space, Space>>
BadRow == <<"S", Space, "X", Space, Space>>

RecordStreams ==
    {Join(<<Row>> \o rs, <<NL>>) :
        rs \in UNION {[1..n -> {Row, OkRow, BadRow, ShortRow}] : n \in 0..MaxRecords}}

\* A struct of type t whose fields hold values that no record holds.
Filled(t) ==
    [i \in 1..Len(Types[t].fields) |->
        IF Types[t].fields[i].kind = "bool" THEN Val(<<"true">>)
        ELSE Val(<<"o", "l", "d">>)]

RecordTargets ==
    {Target("struct", t, Filled(t)) : t \in RecordTypes}
    \cup {Target("slice", "T1", <<>>), Target("slice", "T1", <<Filled("T1")>>),
          Target("ptrslice", "T1", <<Elem(TRUE, Filled("T1"))>>),
          Target("slice", "Bad", <<>>)}

InitRecords == \E stream \in RecordStreams : NewDecoder(stream) /\ Calls(<<>>)

NextRecords == \E v \in RecordTargets : Decode(v)

SpecRecords == InitRecords /\ [][NextRecords]_vars

\* ------------------------------------------------------------------ arbitrary streams

\* Sessions over any stream of up to MaxStream bytes, scanned with the default
\* record terminator or one set by the caller: one byte, two different bytes,
\* or one byte twice.
ScanStreams == UNION {[1..n -> {"a", "b", NL}] : n \in 0..MaxStream}

Terminators == {<<NL>>, <<"a">>, <<"a", "b">>, <<"a", "a">>}

ScanTargets == {Target("struct", "T1", Zero("T1")), Target("slice", "T1", <<>>)}

InitScan == \E stream \in ScanStreams : NewDecoder(stream) /\ Calls(<<>>)

NextScan ==
    \/ \E term \in Terminators : SetRecordTerminator(term)
    \/ \E v \in ScanTargets : Decode(v)

SpecScan == InitScan /\ [][NextScan]_vars

\* ------------------------------------------------------------------ concurrent calls

\* MaxGoroutines goroutines (sessions in readLine, each with the layout of the
\* header Row and the default separator) call cachedStructSetter at the same
\* time, each for one of the struct types; they share structSetterCache, a
\* sync.Map, whose Load and LoadOrStore are atomic.  A goroutine is about to
\* Load, to Create (createStructSetter, after a miss) or to Store
\* (LoadOrStore, or the return of the error), or has returned.
Goroutines == 1..MaxGoroutines

CacheTypes == {"T1", "T2", "Bad"}

CacheLayout == HeaderMap(Row, Space)

KeyOf(g) == CacheKey(goroutines[g].t, CacheLayout, Space)

Goroutine(pc, t, c, setter, err) ==
    [pc |-> pc, t |-> t, c |-> c, setter |-> setter, err |-> err]

\* Everything but the cache and the calls.
session == <<input, cursor, RecordTerminator, FieldSeparator, done, headersParsed,
             headersLength, SkipFirstRecord, lineNum, headers, lastType,
             lastSetter, crashed, uses, explicit, setup, call, tokens>>

\* structSetterCache.Load(key), and the return of f on a hit.
Load(g) ==
    /\ goroutines[g].pc = "Load"
    /\ goroutines' =
          [goroutines EXCEPT ![g] =
              IF KeyOf(g) \in DOMAIN structSetterCache
              THEN Goroutine("returned", @.t, @.c, structSetterCache[KeyOf(g)], NoErr)
              ELSE Goroutine("Create", @.t, @.c, @.setter, @.err)]
    /\ UNCHANGED <<session, structSetterCache, compiles>>

\* The successful runs of createStructSetter per struct type (the layout and
\* the separator are the same in every call), one more for t if c is one.
Compiles(t, c) ==
    IF c.err # NoErr \/ c.panic THEN compiles
    ELSE [k \in DOMAIN compiles \cup {t} |->
             (IF k \in DOMAIN compiles THEN compiles[k] ELSE 0)
             + (IF k = t THEN 1 ELSE 0)]

\* createStructSetter(t, indices, fieldSeparator)
Create(g) ==
    /\ goroutines[g].pc = "Create"
    /\ goroutines' =
          [goroutines EXCEPT ![g] =
              Goroutine("Store", @.t, createStructSetter(@.t, CacheLayout, Space),
                        @.setter, @.err)]
    /\ compiles' = Compiles(goroutines[g].t,
                            createStructSetter(goroutines[g].t, CacheLayout, Space))
    /\ UNCHANGED <<session, structSetterCache>>

\* The return of the error, or structSetterCache.LoadOrStore(key, setter) and
\* the return of f.
Store(g) ==
    /\ goroutines[g].pc = "Store"
    /\ goroutines' =
          [goroutines EXCEPT ![g] =
              Goroutine("returned", @.t, @.c,
                        LoadOrStore(structSetterCache, KeyOf(g), @.c).setter,
                        LoadOrStore(structSetterCache, KeyOf(g), @.c).err)]
    /\ structSetterCache' = LoadOrStore(structSetterCache, KeyOf(g), goroutines[g].c).cache
    /\ UNCHANGED <<session, compiles>>

InitCache ==
    /\ NewDecoder(<<>>)
    /\ \E ts \in [Goroutines -> CacheTypes] :
          Calls([g \in Goroutines |->
                   Goroutine("Load", ts[g],
                             [setter |-> NilSetter, err |-> NoErr, panic |-> FALSE],
                             NilSetter, NoErr)])

NextCache ==
    \E g \in Goroutines : Load(g) \/ Create(g) \/ Store(g)

SpecCache == InitCache /\ [][NextCache]_vars

\* ------------------------------------------------------------------ fields of every setter

\* Sessions that decode one text into a field: the separator is the default
\* or "ab", the header names the one column N, five characters wide, padded
\* for the one separator or for the other, and the record holds a data size,
\* a boolean, a text that no setter but the string one accepts, a year, a
\* level name, a number, or a text with the characters of "ab" after it.
FieldRows ==
    {<<"1", ".", "5", "m", "b">>, <<"T", Space, Space, Space, Space>>,
     <<"x", Space, Space, Space, Space>>, <<"2", "0", "2", "4", Space>>,
     <<"I", "N", "F", "O", Space>>, <<"7", Space, Space, Space, Space>>,
     <<"x", "a", "b", "a", "b">>, <<Space, "x", "a", "b", "b">>}

FieldStreams ==
    {Join(<<h, r>>, <<NL>>) :
        h \in {<<"N", Space, Space, Space, Space>>, <<"N", "a", "b", "b", "b">>},
        r \in FieldRows}

FieldTargets == {Target("struct", t, Zero(t)) : t \in FieldTypes}

InitFields == \E stream \in FieldStreams : NewDecoder(stream) /\ Calls(<<>>)

NextFields ==
    \/ \E v \in FieldTargets : Decode(v)
    \/ \E sep \in {Space, "ab"} : SetFieldSeparator(sep)

SpecFields == InitFields /\ [][NextFields]_vars

\* ------------------------------------------------------------------ the loop of readLines

\* Sessions in which a Decode into a slice takes one step for the part of
\* Decode before the loop of readLines and one step per iteration of the
\* loop, over arbitrary streams and terminators, the empty one included.
\* While the loop runs, call holds the operation "readLines", the slice as
\* it is and the plans applied so far.  The streams have at most MaxStream
\* bytes, so a session that consumes a byte per record never scans
\* MaxElements records; a session is followed up to that many.
MaxElements == MaxStream + 2

InLoop == call.op = "readLines"

\* The session after a step of Decode that left the Decoder as d and the
\* cache as cache, the call now being c.
Stepped(d, cache, panic, c) ==
    /\ cursor' = d.cursor
    /\ done' = d.done
    /\ headersParsed' = d.headersParsed
    /\ headersLength' = d.headersLength
    /\ SkipFirstRecord' = d.SkipFirstRecord
    /\ lineNum' = d.lineNum
    /\ headers' = d.headers
    /\ lastType' = d.lastType
    /\ lastSetter' = d.lastSetter
    /\ uses' = d.uses
    /\ tokens' = d.tokens
    /\ structSetterCache' = cache
    /\ crashed' = panic
    /\ call' = c
    /\ UNCHANGED <<input, RecordTerminator, FieldSeparator, explicit, setup,
                   goroutines, compiles>>

\* Decode(v) for a pointer to a slice of structs, up to the call of
\* readLines: the return when the session is done or parseHeaders fails.
DecodeEnter(v) ==
    /\ ~crashed
    /\ ~InLoop
    /\ Len(tokens) < MaxElements
    /\ IF done
       THEN Stepped(Dec, structSetterCache, FALSE,
                    Call("Decode", v, v.val, ErrComplete, <<>>, Len(uses)))
       ELSE \E h \in {parseHeaders(Dec)} :
               Stepped(h.d, structSetterCache, FALSE,
                       Call(IF h.err # NoErr THEN "Decode" ELSE "readLines", v, v.val,
                            h.err, <<>>, Len(uses)))

\* One iteration of the loop of readLines, r being what readLine returned,
\* and the return of Decode when the iteration leaves the loop.
readLinesIterated(r) ==
    IF r.panic \/ r.err # NoErr
    THEN Stepped(r.d, r.cache, r.panic,
                 Call("Decode", call.v, call.val, r.err, Applied(call.applied, r),
                      call.first))
    ELSE Stepped(r.d, r.cache, FALSE,
                 Call(IF r.d.done THEN "Decode" ELSE "readLines", call.v,
                      IF r.ok
                      THEN Append(call.val, Elem(call.v.shape = "ptrslice", r.item))
                      ELSE call.val,
                      NoErr, Applied(call.applied, r), call.first))

readLinesIteration ==
    /\ ~crashed
    /\ InLoop
    /\ Len(tokens) < MaxElements
    /\ \E r \in {readLine(Dec, structSetterCache, call.v.t, Zero(call.v.t))} :
          readLinesIterated(r)

LoopTargets == {Target("slice", "T1", <<>>), Target("ptrslice", "T1", <<>>)}

NextLoop ==
    \/ \E term \in Terminators \cup {<<>>} : ~InLoop /\ SetRecordTerminator(term)
    \/ \E v \in LoopTargets : DecodeEnter(v)
    \/ readLinesIteration

\* The loop is not suspended for ever: a call inside it takes its next
\* iteration.
SpecLoop == InitScan /\ [][NextLoop]_vars /\ WF_vars(readLinesIteration)

\* ------------------------------------------------------------------ properties

\* The records of a stream, in order: the text before each record terminator,
\* and what follows the last one unless it is empty.
RECURSIVE Records(_)
Records(text) ==
    IF text = <<>> THEN <<>>
    ELSE IF Index(text, RecordTerminator) < 0 THEN <<text>>
    ELSE <<SubSeq(text, 1, Index(text, RecordTerminator))>>
         \o Records(SubSeq(text, Index(text, RecordTerminator)
                                 + Len(RecordTerminator) + 1, Len(text)))

\* The positions (1-based, in the stream) of the records the last call scanned
\* and read as data.
LastRead == {k \in (call.first + 1)..Len(uses) : uses[k] = "data"}

\* The last call was a Decode into a struct or into a slice of structs.
Decoding == call.op = "Decode" /\ call.v.shape \notin InvalidShapes

\* The fields of type t that are mapped to a column of the layout and whose
\* type is none of temporal, integer, unsigned, float, boolean, string or
\* text-decodable.
Unconvertible(t) ==
    {i \in 1..Len(Types[t].fields) :
        /\ Types[t].fields[i].exported
        /\ Types[t].fields[i].col \in DOMAIN headers
        /\ Types[t].fields[i].unmarshaler = "none"
        /\ Types[t].fields[i].kind \notin
              {"time", "string", "bool"} \cup IntKinds \cup UintKinds \cup FloatKinds}

\* C1: a Decode that reads a record of the required length into a struct
\* type with a mapped field that has no converter returns UnconvertibleField
\* naming that field and its type, on the first call and on every repeated
\* one, and never crashes.
C1_UnconvertibleField ==
    (/\ Decoding
     /\ call.v.shape = "struct"
     /\ Unconvertible(call.v.t) # {}
     /\ \E k \in LastRead : Len(Records(input)[k]) = headersLength)
    => /\ ~crashed
       /\ \E i \in Unconvertible(call.v.t) :
             call.err = InvalidTypeError(Types[call.v.t].fields[i])

\* The repeated Decode into the struct type with the unconvertible field
\* crashed (the separator being valid, and the first such Decode having
\* returned its error).
C1_RepeatedDecodeCrashes ==
    /\ crashed
    /\ Decoding
    /\ call.v.t = "Bad"
    /\ ValidPattern(FieldSeparator)
    /\ lastType = "Bad"
    /\ lastSetter = NilSetter

\* C2: every record is decoded with a plan compiled from the type it is
\* decoded into: each step of a plan applied by a Decode into type t is bound
\* to the field of t at the step's index, also when another type of the same
\* package path and name was decoded before with the same layout and
\* separator.
C2_OwnPlan ==
    Decoding =>
        \A a \in DOMAIN call.applied :
            \A j \in DOMAIN call.applied[a].setter.steps :
                LET step == call.applied[a].setter.steps[j]
                IN /\ step.idx < Len(Types[call.v.t].fields)
                   /\ step.field = Types[call.v.t].fields[step.idx + 1]

\* A record was decoded into T2 with the plan compiled for T1, and the
\* string setter of T1's first field, applied to the boolean first field of
\* T2, crashed.
C2_OtherTypesPlan ==
    /\ crashed
    /\ Decoding
    /\ call.v.t = "T2"
    /\ \E a \in DOMAIN call.applied :
          /\ call.applied[a].setter.steps # <<>>
          /\ call.applied[a].setter.steps[1].field = Types["T1"].fields[1]

\* The positions of the records consumed and discarded so far.
Skipped == {k \in DOMAIN uses : uses[k] = "skipped"}

\* C3: with an explicit layout set right after construction, no record is
\* discarded while SkipFirstRecord is left false; and when SkipFirstRecord is
\* set to true right after SetHeaders, only the first record of the stream
\* is ever discarded, every other record scanned being decoded as data.
C3_SkipExactlyOne ==
    /\ setup = "explicit" => \A k \in DOMAIN uses : uses[k] = "data"
    /\ setup = "skip" => /\ Skipped \subseteq {1}
                         /\ \A k \in DOMAIN uses : k > 1 => uses[k] = "data"
                         /\ uses # <<>> => uses[1] = "skipped"

\* With the explicit layout and SkipFirstRecord set once, two records have
\* been discarded.
C3_SecondRecordSkipped == setup = "skip" /\ Cardinality(Skipped) = 2

\* The text of the field N in the record at position k of the stream.
NumberText(k) ==
    TrimRight(TrimLeft(Records(input)[k], FieldSeparator), FieldSeparator)

\* text is a base-10 numeral: an optional sign and digits.
IsNumeral(text) ==
    /\ text # <<>>
    /\ IsDigits(IF Head(text) \in {"+", "-"} THEN Tail(text) ELSE text)

\* The value of the numeral text lies outside the range of a field of the
\* kind given.
OutOfRange(kind, text) ==
    LET neg == Head(text) = "-"
        mag == StripZeros(IF Head(text) \in {"+", "-"} THEN Tail(text) ELSE text)
    IN IF kind \in IntKinds
       THEN Greater(mag, IF neg THEN MinIntMag(kind) ELSE MaxIntMag(kind))
       ELSE IF kind \in UintKinds
       THEN (neg /\ mag # <<"0">>) \/ Greater(mag, MaxUintMag(kind))
       ELSE IF kind = "float32" THEN Greater(mag, MaxFloat32Mag)
       ELSE ExceedsFloat64(mag)

\* C4: a Decode that reads, into a signed, unsigned or float field (a value
\* or a pointer), a base-10 numeral whose value is outside the range of the
\* field's kind fails with an OverflowFailure naming the field, whatever the
\* magnitude of the value, and never with a CastingFailure.
C4_OverflowFailure ==
    (Decoding /\ call.v.t \in NumberTypes) =>
        \A k \in LastRead :
            (/\ Len(Records(input)[k]) = headersLength
             /\ IsNumeral(NumberText(k))
             /\ OutOfRange(Types[call.v.t].fields[1].kind, NumberText(k)))
            => /\ ~crashed
               /\ call.err.kind = "Overflow"
               /\ call.err.field = Types[call.v.t].fields[1].name

\* The numeral 2^63 read into an int64 field failed with a CastingFailure.
C4_RangeErrorIsCasting ==
    /\ Decoding
    /\ call.v.t = "I64"
    /\ call.err = CastingError(Types["I64"].fields[1], MinIntMag("int64"))

\* C5: once the done flag is set it stays set, and every Decode from then on,
\* whatever its target, returns "processing already complete", scans nothing,
\* leaves the layout as it is and leaves the target as it was passed.
C5_DoneIsFinal ==
    [][done =>
         /\ done'
         /\ \A v \in Targets :
               Decode(v) => /\ call'.err = ErrComplete
                            /\ call'.val = v.val
                            /\ cursor' = cursor
                            /\ uses' = uses
                            /\ lineNum' = lineNum
                            /\ headers' = headers
                            /\ headersLength' = headersLength
                            /\ headersParsed' = headersParsed
                            /\ ~crashed']_vars

\* A Decode was called after the stream was found exhausted, and returned
\* "processing already complete".
C5_CalledWhenDone ==
    /\ done
    /\ Decoding
    /\ call.err = ErrComplete
    /\ call.first = Len(uses)
    /\ uses # <<>>

\* The total length of the session's layout: the largest range end of an
\* explicit layout, the character count of the header of an inferred one.
LayoutLength ==
    IF explicit THEN MaxEnd(headers) ELSE Len(Records(input)[1])

\* What C6 says of the call that just returned.
LengthMismatchReported ==
    \A k \in LastRead :
        Len(Records(input)[k]) # LayoutLength
        => call.err = LengthErr(k, Len(Records(input)[k]), LayoutLength)

C7_EmptyStreamFails ==
    (Decoding /\ ~explicit /\ input = <<>>) => (~crashed /\ call.err # NoErr)

\* Decode into a slice returned no error on the empty stream whose header
\* was to be inferred.
C7_SliceReturnsNil ==
    /\ Decoding
    /\ call.v.shape = "slice"
    /\ ~explicit
    /\ input = <<>>
    /\ call.err = NoErr
    /\ done

\* C8: the first Decode of a session whose FieldSeparator is not a valid
\* pattern, on a stream that holds a record, returns an error and does not
\* crash, with a layout to be inferred and with an explicit layout.
C8_InvalidSeparatorFails ==
    [][\A v \in Targets :
          (/\ Decode(v)
           /\ call.op = "NewDecoder"
           /\ input # <<>>
           /\ ~ValidPattern(FieldSeparator))
          => (~crashed' /\ call'.err # NoErr)]_vars

\* With an explicit layout and an invalid separator, the Decode of the first
\* record crashed while compiling the plan.
C8_ExplicitLayoutCrashes ==
    /\ crashed
    /\ explicit
    /\ ~ValidPattern(FieldSeparator)
    /\ Decoding
    /\ call.applied = <<>>
    /\ LastRead # {}

\* C9: while the layout is the one SetHeaders installed, the record length
\* Decode requires is the largest range end of that layout, whatever happened
\* on the session before.
C9_ExplicitLength == explicit => headersLength = MaxEnd(headers)

\* SetHeaders was called after a longer header had been inferred, and the
\* required length is still the header's.
C9_LengthOfTheHeaderKept ==
    /\ explicit
    /\ headersLength = Len(Row)
    /\ MaxEnd(headers) = Len(ShortRow)

\* The ranges of the layout.
Ranges == {headers[n] : n \in DOMAIN headers}

\* C10: the ranges of a layout inferred from a header whose names do not
\* contain the separator are consecutive half-open character ranges: one
\* starts at 0, each ends where another starts or at the header's character
\* count, which is the required length, and each spans its column's name and
\* the separator run after it, also when a name is a multi-byte character.
C10_ConsecutiveCharacterRanges ==
    (headersParsed /\ ~explicit) =>
        /\ headersLength = Len(Records(input)[1])
        /\ \E r \in Ranges : r[1] = 0
        /\ \A r \in Ranges :
              /\ r[1] < r[2]
              /\ r[2] <= headersLength
              /\ (r[2] = headersLength \/ \E q \in Ranges : q[1] = r[2])
        /\ \A n \in DOMAIN headers :
              Str(TrimRight(SubSeq(Records(input)[1], headers[n][1] + 1,
                                   headers[n][2]), FieldSeparator)) = n

\* A layout was inferred whose last range ends past the header's character
\* count.
C10_RangePastTheHeader ==
    /\ headersParsed
    /\ ~explicit
    /\ MaxEnd(headers) > headersLength
    /\ headersLength = Len(Records(input)[1])

\* The first n elements of the sequence s (all of them when it has fewer).
Firsts(s, n) == SubSeq(s, 1, IF Len(s) < n THEN Len(s) ELSE n)

\* The targets that are a pointer to a struct.
StructTargets == {v \in Targets : v.shape = "struct"}

\* The scanner delivered exactly the records new, the next ones of the
\* stream, in this step, and they were put to the uses given.
Delivers(new, as) ==
    /\ tokens' = tokens \o new
    /\ uses' = uses \o Firsts(as, Len(new))
    /\ lineNum' = lineNum + Len(new)
    /\ Records(Unread(Dec)) = new \o Records(SubSeq(input, cursor' + 1, Len(input)))

\* C12: with the layout inferred from the header and SkipFirstRecord false, a
\* Decode into a struct on a session that is not done scans exactly the next
\* record of the stream once the layout is resolved (the header and the next
\* record when it is the call that resolves it, as in Unmarshal), whether it
\* succeeds or fails; and as long as the configuration is the default one the
\* records scanned are the records of the stream in order, the first as the
\* header and every other as data.
C12_OneRecordPerDecode ==
    [][/\ \A v \in StructTargets :
             Decode(v) /\ ~explicit /\ ~SkipFirstRecord /\ ~done =>
                IF headersParsed
                THEN Delivers(Firsts(Records(Unread(Dec)), 1), <<"data">>)
                ELSE IF ValidPattern(FieldSeparator)
                THEN Delivers(Firsts(Records(Unread(Dec)), 2), <<"header", "data">>)
                ELSE Delivers(<<>>, <<>>)
       /\ setup' = "default" =>
             /\ tokens' = Firsts(Records(input), Len(tokens'))
             /\ \A k \in DOMAIN uses' :
                   uses'[k] = IF k = 1 THEN "header" ELSE "data"]_vars

\* The third Decode of a session with the default configuration, into a
\* struct, read the third data record of the stream and failed on it.
C12_ThirdRecordFails ==
    /\ setup = "default"
    /\ call.op = "Decode"
    /\ call.v.shape = "struct"
    /\ call.first = 2
    /\ uses = <<"header", "data", "data">>
    /\ call.err.kind = "LengthMismatch"
    /\ call.err.line = 3

\* C13 as stated: a Decode into a struct made when no record remains returns
\* io.EOF and leaves the struct as it was passed, and a Decode that read a
\* data record does not return io.EOF.
C13_EndOfStream ==
    [][\A v \in StructTargets :
          Decode(v) =>
             /\ Unread(Dec) = <<>> => call'.err = EOF /\ call'.val = v.val
             /\ uses' # uses /\ uses'[Len(uses')] = "data" => call'.err # EOF]_vars

\* parseHeaders returns no error: the layout is resolved and no record is to
\* be skipped, or the field separator is a valid pattern.
HeadersResolvable ==
    (headersParsed /\ ~SkipFirstRecord) \/ ValidPattern(FieldSeparator)

\* C13, amended: on a session that is not done and whose layout is resolved
\* or resolvable, a Decode into a struct made when no record remains returns
\* io.EOF, sets the done flag and leaves the struct as it was passed; and a
\* Decode into a struct that read a data record does not return io.EOF
\* and does not set the done flag.
C13_EndOfStreamOnce ==
    [][\A v \in StructTargets :
          Decode(v) =>
             /\ Unread(Dec) = <<>> /\ ~done /\ HeadersResolvable =>
                   /\ call'.err = EOF
                   /\ call'.val = v.val
                   /\ done'
                   /\ uses' = uses
             /\ uses' # uses /\ uses'[Len(uses')] = "data" =>
                   call'.err # EOF /\ ~done']_vars

\* A Decode into a struct found the stream exhausted after records had been
\* read, and returned io.EOF.
C13_EOFAfterRecords ==
    /\ call.op = "Decode"
    /\ call.v.shape = "struct"
    /\ call.err = EOF
    /\ call.val = call.v.val
    /\ call.first = Len(uses)
    /\ Len(uses) >= 2
    /\ uses[Len(uses)] = "data"
    /\ done

\* The targets Decode rejects.
InvalidTargets == {v \in Targets : v.shape \in InvalidShapes}

\* C14: on a session that is not done, Decode with a target that is not a
\* non-nil pointer to a struct or to a slice of structs (or of pointers to
\* structs) returns ErrIncorrectInputValue, scans nothing, and leaves the
\* line counter, the layout, the done flag, the most recently used type and
\* plan, the plan cache and the target as they were.
C14_InvalidTargetRejected ==
    [][\A v \in InvalidTargets :
          Decode(v) /\ ~done =>
             /\ call'.err = ErrIncorrectInputValue
             /\ call'.val = v.val
             /\ ~crashed'
             /\ UNCHANGED <<cursor, tokens, uses, lineNum, headers, headersLength,
                            headersParsed, done, lastType, lastSetter,
                            structSetterCache>>]_vars

\* Decode was called with a target it rejects before the header of a stream
\* with records had been read, and returned ErrIncorrectInputValue.
C14_RejectedBeforeHeader ==
    /\ call.op = "Decode"
    /\ call.v.shape \in InvalidShapes
    /\ call.err = ErrIncorrectInputValue
    /\ input # <<>>
    /\ ~headersParsed
    /\ ~done

\* The record tok followed by the terminator: the terminator occurs there
\* and nowhere before.
Terminated(tok) ==
    Index(tok \o RecordTerminator, RecordTerminator) = Len(tok)

\* The bytes read are the records new, each of them followed by the
\* terminator, except that the last one may be a non-empty tail that runs to
\* the end of the stream and holds no terminator.
Segments(read, new, atEnd) ==
    \/ /\ read = Join(new, RecordTerminator)
       /\ \A k \in DOMAIN new : Terminated(new[k])
    \/ /\ new # <<>>
       /\ atEnd
       /\ read = Join(SubSeq(new, 1, Len(new) - 1), RecordTerminator)
                    \o new[Len(new)]
       /\ \A k \in 1..(Len(new) - 1) : Terminated(new[k])
       /\ new[Len(new)] # <<>>
       /\ Index(new[Len(new)], RecordTerminator) < 0

DataLeft ==
    IF headersParsed \/ Records(Unread(Dec)) = <<>> THEN Records(Unread(Dec))
    ELSE Tail(Records(Unread(Dec)))

\* The value the record row holds for a struct of type t whose fields held
\* old: the first character for the fields of column S, true or false for
\* the letter in the boolean fields of column T, and the old value for the
\* fields that are unexported or of no column.
RowValue(t, row, old) ==
    [i \in 1..Len(Types[t].fields) |->
        IF ~Types[t].fields[i].exported THEN old[i]
        ELSE IF Types[t].fields[i].col = "S" THEN Val(<<row[1]>>)
        ELSE IF Types[t].fields[i].col = "T"
        THEN Val(IF row[3] = "T" THEN <<"true">> ELSE <<"false">>)
        ELSE old[i]]

SliceTargets ==
    {v \in RecordTargets : v.shape \in {"slice", "ptrslice"} /\ v.t \in RecordTypes}

\* C11: a Decode into a slice, made on a session that is not done when the
\* n data records left in the stream are all well-formed, returns nil and
\* leaves in the slice the elements it held followed by the n records'
\* values in stream order, as structs or as pointers to structs.
C11_SliceAppended ==
    [][\A v \in SliceTargets :
          Decode(v) /\ ~done /\ (\A k \in DOMAIN DataLeft : DataLeft[k] \in {Row, OkRow}) =>
             /\ ~crashed'
             /\ call'.err = NoErr
             /\ call'.val = v.val \o
                   [k \in DOMAIN DataLeft |->
                      Elem(v.shape = "ptrslice", RowValue(v.t, DataLeft[k], Zero(v.t)))]]_vars

\* A Decode into a slice of T that held an element crashed on a well-formed
\* record, the plan of another struct type named T being applied to it.
C11_SliceDecodeCrashes ==
    /\ crashed
    /\ call.op = "Decode"
    /\ call.v = Target("slice", "T1", <<Filled("T1")>>)
    /\ lastSetter = createStructSetter("T2", headers, FieldSeparator).setter
    /\ \A k \in DOMAIN tokens : tokens[k] \in {Row, OkRow}

\* The fields (1-based) of type t that are unexported or whose column is not
\* in the layout h.
Unmapped(t, h) ==
    {i \in 1..Len(Types[t].fields) :
        ~Types[t].fields[i].exported \/ getRefName(Types[t].fields[i]) \notin DOMAIN h}

RecordStructs == {v \in RecordTargets : v.shape = "struct"}

\* C15: a Decode into a struct applies no plan step to a field that is
\* unexported or whose column is not in the layout, returns no error that
\* names such a field, whatever its type, and leaves in it the value it held.
C15_UnmappedFieldsUntouched ==
    [][\A v \in RecordStructs :
          Decode(v) /\ ~done =>
             \A i \in Unmapped(v.t, headers') :
                /\ \A k \in DOMAIN call'.applied :
                      \A j \in DOMAIN call'.applied[k].setter.steps :
                         call'.applied[k].setter.steps[j].idx # i - 1
                /\ call'.err.field # Types[v.t].fields[i].name
                /\ call'.val[i] = v.val[i]]_vars

\* A Decode into the struct with a field of no column and an unexported
\* field crashed: the plan applied was compiled for another struct type of the
\* same name, and has a step for the field of no column.
C15_StepOnUnmappedField ==
    /\ crashed
    /\ call.op = "Decode"
    /\ call.v = Target("struct", "T3", Filled("T3"))
    /\ Len(call.applied) = 1
    /\ call.applied[1].setter = createStructSetter("T1", headers, FieldSeparator).setter
    /\ call.applied[1].setter.steps[1].idx + 1 \in Unmapped("T3", headers)

\* The exported fields (1-based) of type t that have a column in the layout h.
Mapped(t, h) == (1..Len(Types[t].fields)) \ Unmapped(t, h)

\* The mapped fields of type t for which the record row holds no value of the
\* field's type: the boolean fields, when the row is BadRow.
Failing(t, h, row) ==
    {i \in Mapped(t, h) : Types[t].fields[i].kind = "bool" /\ row = BadRow}

\* C20: a Decode into a struct that reads a record on which a mapped field
\* fails returns the failure of the first such field in declaration order;
\* the mapped fields declared before it hold the values of the record, the
\* failing field and every field declared after it hold what they held.
C20_FirstFailureNoRollback ==
    [][\A v \in RecordStructs :
          Decode(v) /\ ~done /\ uses' # uses =>
             \A k \in Failing(v.t, headers', tokens'[Len(tokens')]) :
                (\A i \in Failing(v.t, headers', tokens'[Len(tokens')]) : k <= i) =>
                   /\ ~crashed'
                   /\ call'.err = CastingError(Types[v.t].fields[k],
                                               <<tokens'[Len(tokens')][3]>>)
                   /\ \A i \in 1..Len(Types[v.t].fields) :
                         call'.val[i] =
                            IF i < k
                            THEN RowValue(v.t, tokens'[Len(tokens')], v.val)[i]
                            ELSE v.val[i]]_vars

\* A Decode into the struct with S declared before T failed on column T and
\* left S as it was: the plan applied was that of the struct type of the same
\* name with T declared first.
C20_EarlierFieldNotDecoded ==
    /\ ~crashed
    /\ call.op = "Decode"
    /\ call.v = Target("struct", "T1", Filled("T1"))
    /\ call.err = CastingError(Types["T1"].fields[2], <<"X">>)
    /\ call.val = Filled("T1")
    /\ Len(call.applied) = 1
    /\ call.applied[1].setter = createStructSetter("T2", headers, FieldSeparator).setter

HeaderStructs == {v \in HeaderTargets : v.shape = "struct"}

\* The value the record row holds in the column named by the character n:
\* the character itself as a string, true for the letter T as a boolean.
ColumnValue(f, n) ==
    IF f.kind = "bool" /\ n = "T" THEN Val(<<"true">>) ELSE Val(<<n>>)

\* C17: a Decode into a struct that reads a data record in which every
\* column holds, padded with the separator, a value of the field mapped to it
\* (here the record repeats the header, so that column S holds the string S
\* and column T the boolean token T) returns nil and sets every mapped field to
\* the value of its column.
C17_RoundTrip ==
    [][\A v \in HeaderStructs :
          Decode(v) /\ ~done /\ uses' # uses /\ uses'[Len(uses')] = "data" =>
             /\ ~crashed'
             /\ call'.err = NoErr
             /\ \A i \in 1..Len(Types[v.t].fields) :
                   \A k \in DOMAIN tokens'[1] :
                      tokens'[1][k] = getRefName(Types[v.t].fields[i]) =>
                         call'.val[i] = ColumnValue(Types[v.t].fields[i], tokens'[1][k])]_vars

\* Under a header whose first column is named by a multi-byte character, the
\* boolean field T of the struct's own plan was handed a zero rune from past
\* the end of the record that holds T in column T.
C17_ColumnReadPastRecord ==
    /\ ~crashed
    /\ call.op = "Decode"
    /\ call.v = Target("struct", "T1", Zero("T1"))
    /\ tokens = <<<<Wide, Space, "T">>, <<Wide, Space, "T">>>>
    /\ call.err = CastingError(Types["T1"].fields[2], <<NUL>>)
    /\ call.applied[1].setter = createStructSetter("T1", headers, FieldSeparator).setter

\* C18: createStructSetter runs to success at most once per struct type,
\* layout and separator, whatever the interleaving of the calls.
C18_CompiledOnce == \A t \in DOMAIN compiles : compiles[t] <= 1

\* Two calls for the same struct type both missed the cache and both
\* compiled the plan; both have returned.
C18_CompiledTwice ==
    /\ goroutines[1].t = "T1" /\ goroutines[2].t = "T1"
    /\ goroutines[1].pc = "returned" /\ goroutines[2].pc = "returned"
    /\ "T1" \in DOMAIN compiles
    /\ compiles["T1"] = 2

\* The goroutines that return in this step.
Returning == {g \in Goroutines : goroutines[g].pc # "returned"
                                  /\ goroutines'[g].pc = "returned"}

\* C19: under any interleaving of cachedStructSetter calls, an entry of the
\* cache is never replaced or removed; a call whose compilation failed
\* returns the error and stores nothing; every other call returns the plan
\* the cache holds for its key when it returns, which is the plan that was
\* stored already or, when none was, the plan the call compiled and stores;
\* and the calls that have returned a plan for one key returned the same plan.
C19_FirstStoredWins ==
    [][/\ \A k \in DOMAIN structSetterCache :
             k \in DOMAIN structSetterCache'
             /\ structSetterCache'[k] = structSetterCache[k]
       /\ \A g \in Returning :
             IF goroutines'[g].err # NoErr
             THEN /\ structSetterCache' = structSetterCache
                  /\ goroutines'[g].err = goroutines[g].c.err
                  /\ goroutines'[g].setter = NilSetter
             ELSE /\ KeyOf(g) \in DOMAIN structSetterCache'
                  /\ goroutines'[g].setter = structSetterCache'[KeyOf(g)]
                  /\ IF KeyOf(g) \in DOMAIN structSetterCache
                     THEN structSetterCache' = structSetterCache
                     ELSE goroutines'[g].setter = goroutines[g].c.setter
       /\ \A g, h \in Goroutines :
             /\ goroutines'[g].pc = "returned" /\ goroutines'[h].pc = "returned"
             /\ goroutines'[g].err = NoErr /\ goroutines'[h].err = NoErr
             /\ KeyOf(g) = KeyOf(h)
             => goroutines'[g].setter = goroutines'[h].setter]_vars

\* Two calls compiled different plans for one key; the first stored its own
\* and returned it, the second returned the first one's, and a third call
\* failed to compile and stored nothing.
C19_LoserReturnsStoredPlan ==
    /\ \A g \in Goroutines : goroutines[g].pc = "returned"
    /\ goroutines[1].t = "T1" /\ goroutines[2].t = "T2" /\ goroutines[3].t = "Bad"
    /\ goroutines[1].c.setter # goroutines[2].c.setter
    /\ goroutines[2].c.setter # NilSetter
    /\ goroutines[1].setter = goroutines[1].c.setter
    /\ goroutines[2].setter = goroutines[1].c.setter
    /\ goroutines[3].err = InvalidTypeError(Types["Bad"].fields[2])
    /\ DOMAIN structSetterCache = {KeyOf(1)}

\* C27: the plan applied to a record corresponds to the session's current
\* layout and current field separator: every step of a plan applied by a
\* Decode call extracts the range the layout now gives the step's column and
\* trims with the separator now configured, also when SetHeaders or a change
\* of FieldSeparator came between two Decode calls for the same struct type.
C27_CurrentConfiguration ==
    [][\A v \in Targets :
          Decode(v) =>
              \A k \in DOMAIN call'.applied :
                  \A j \in DOMAIN call'.applied[k].setter.steps :
                      LET step == call'.applied[k].setter.steps[j]
                      IN /\ step.sep = FieldSeparator'
                         /\ getRefName(step.field) \in DOMAIN headers'
                         /\ <<step.from, step.to>> = headers'[getRefName(step.field)]]_vars

\* After an inferred layout, a Decode and SetHeaders, a second Decode of the
\* same struct type returned having extracted column T with the range [2, 5)
\* of the inferred layout although the layout now gives it [2, 3).
C27_StalePlanApplied ==
    /\ Decoding
    /\ ~crashed
    /\ explicit
    /\ "T" \in DOMAIN headers
    /\ headers["T"] = <<2, 3>>
    /\ \E k \in DOMAIN call.applied :
          \E j \in DOMAIN call.applied[k].setter.steps :
              /\ call.applied[k].setter.steps[j].field.col = "T"
              /\ call.applied[k].setter.steps[j].to = 5

\* The positions of the records the layout was inferred from.
Inferred == {k \in DOMAIN uses : uses[k] = "header"}

\* C22: header inference runs at most once per session, and once the layout
\* is resolved (by inference or by SetHeaders) no Decode call changes the
\* layout or its total length, and every plan the call applies extracts each
\* column with the range that layout gives it.
C22_LayoutResolvedOnce ==
    [][\A v \in Targets :
          Decode(v) =>
              /\ Cardinality({k \in DOMAIN uses' : uses'[k] = "header"}) <= 1
              /\ headersParsed =>
                    /\ headers' = headers
                    /\ headersLength' = headersLength
                    /\ \A k \in DOMAIN call'.applied :
                          \A j \in DOMAIN call'.applied[k].setter.steps :
                              LET step == call'.applied[k].setter.steps[j]
                              IN /\ step.field.col \in DOMAIN headers
                                 /\ headers[step.field.col] = <<step.from, step.to>>]_vars

\* The layout was inferred from the first record, then replaced by
\* SetHeaders, and a Decode returned having applied a plan one of whose
\* steps does not have the range the layout gives its column.
C22_BoundToReplacedLayout ==
    /\ Decoding
    /\ Inferred # {}
    /\ explicit
    /\ \E k \in DOMAIN call.applied :
          \E j \in DOMAIN call.applied[k].setter.steps :
              LET step == call.applied[k].setter.steps[j]
              IN /\ step.field.col \in DOMAIN headers
                 /\ headers[step.field.col] # <<step.from, step.to>>

\* The outcome of decoding record row into a zero struct of type t with the
\* plan setter, and with a plan compiled now for t, the layout and the
\* separator of the calls (the compilation error when there is one).
WithPlan(setter, t, row) == CallStructSetter(setter, t, Zero(t), row)

WithFreshPlan(t, row) ==
    IF createStructSetter(t, CacheLayout, Space).err # NoErr
    THEN [item |-> Zero(t), err |-> createStructSetter(t, CacheLayout, Space).err,
          panic |-> FALSE]
    ELSE WithPlan(createStructSetter(t, CacheLayout, Space).setter, t, row)

\* C23: decoding a record with the plan a cachedStructSetter call returned
\* from the cache gives the same outcome (the same field values, or the same
\* failure) as decoding it with a plan freshly compiled for the call's struct
\* type, layout and field separator.
C23_HitAsFresh ==
    \A g \in DOMAIN goroutines :
        goroutines[g].pc = "returned" /\ goroutines[g].err = NoErr =>
            \A row \in {Row, OkRow, BadRow} :
                WithPlan(goroutines[g].setter, goroutines[g].t, row)
                    = WithFreshPlan(goroutines[g].t, row)

\* A call for type T2 found in the cache the plan stored by a call for T1
\* (it compiled nothing itself); decoding the record Row with it panics,
\* while the plan compiled for T2 decodes the record.
C23_HitPanics ==
    /\ goroutines[1].t = "T1" /\ goroutines[1].pc = "returned"
    /\ goroutines[2].t = "T2" /\ goroutines[2].pc = "returned"
    /\ goroutines[2].c.setter = NilSetter
    /\ goroutines[2].setter = goroutines[1].c.setter
    /\ WithPlan(goroutines[2].setter, "T2", Row).panic
    /\ ~WithFreshPlan("T2", Row).panic
    /\ WithFreshPlan("T2", Row).err = NoErr

\* C28: in every session state with a resolved layout each column range
\* [start, end) satisfies 0 <= start <= end <= the layout's total length, and
\* every step of a plan applied to a record (which passed the length check)
\* extracts a range that lies within the record.
C28_RangesWithinRecord ==
    /\ headersParsed =>
          \A n \in DOMAIN headers :
              /\ 0 <= headers[n][1]
              /\ headers[n][1] <= headers[n][2]
              /\ headers[n][2] <= headersLength
    /\ Decoding =>
          \A k \in DOMAIN call.applied :
              /\ call.applied[k].line \in DOMAIN tokens
              /\ \A j \in DOMAIN call.applied[k].setter.steps :
                    /\ 0 <= call.applied[k].setter.steps[j].from
                    /\ call.applied[k].setter.steps[j].from
                          <= call.applied[k].setter.steps[j].to
                    /\ call.applied[k].setter.steps[j].to
                          <= Len(tokens[call.applied[k].line])

\* A Decode returned having applied, to a record of exactly the required
\* length, a plan with a step whose range ends past the record; the range is
\* the one the inferred layout gives the step's column.
C28_StepPastTheRecord ==
    /\ Decoding
    /\ ~crashed
    /\ ~explicit
    /\ \E k \in DOMAIN call.applied :
          /\ call.applied[k].line \in DOMAIN tokens
          /\ Len(tokens[call.applied[k].line]) = headersLength
          /\ \E j \in DOMAIN call.applied[k].setter.steps :
                LET step == call.applied[k].setter.steps[j]
                IN /\ step.to > Len(tokens[call.applied[k].line])
                   /\ headers[step.field.col] = <<step.from, step.to>>

\* The records of the model's streams that a plan for T cannot decode: the
\* record that is too short and the one whose column T holds no boolean.
FailingRows == {ShortRow, BadRow}

\* The targets of the sessions with data records that are slices.
AllSlices == {v \in RecordTargets : v.shape \in {"slice", "ptrslice"}}

C30_SliceDecodeTerminates ==
    /\ [][Len(tokens') > Len(tokens) => cursor' > cursor]_vars
    /\ (InLoop ~> ~InLoop)

\* With an empty terminator and a stream that is not empty, a call is in
\* the loop after as many records as a session is followed for, each of them
\* appended to the slice but the first (the header), and no byte consumed.
C30_NoByteConsumed ==
    /\ InLoop
    /\ RecordTerminator = <<>>
    /\ input # <<>>
    /\ cursor = 0
    /\ Len(tokens) = MaxElements
    /\ Len(call.val) = MaxElements - 1

\* The steps of the plans in the cache.
CachedSteps ==
    UNION {{structSetterCache[k].steps[j] : j \in DOMAIN structSetterCache[k].steps} :
              k \in DOMAIN structSetterCache}

\* The converter of a kind: the family of the kind, in its pointer variant
\* for an optional field.
Family(f) ==
    CASE f.kind = "time" -> "time"
      [] f.kind \in IntKinds -> "int"
      [] f.kind \in UintKinds -> "uint"
      [] f.kind \in FloatKinds -> "float"
      [] f.kind = "bool" -> "bool"
      [] f.kind = "string" -> "string"
      [] OTHER -> "none"

KindSetter(f) == Family(f) \o "Set" \o (IF f.ptr THEN "Pointer" ELSE "")

TextSetters == {"textUnmarshalerSet", "textUnmarshalerSetPointer"}

\* C24 as stated: a field whose type is temporal or of a primitive kind is
\* always bound to that kind's converter, and the text-decoding converter
\* is bound only to fields of no such kind.
C24_KindsBeforeTextDecoding ==
    \A step \in CachedSteps :
        /\ Family(step.field) # "none" => step.setter = KindSetter(step.field)
        /\ step.setter \in TextSetters => Family(step.field) = "none"

\* C24, amended: a temporal field is bound to the temporal converter; any
\* other field whose type has the text-decoding capability (itself or through
\* its pointer) is bound to the text-decoding converter, whatever its kind;
\* and a field of a primitive kind without that capability is bound to the
\* kind's converter.
C24_TextDecodingBeforeKinds ==
    \A step \in CachedSteps :
        IF step.field.kind = "time" THEN step.setter = KindSetter(step.field)
        ELSE IF step.field.unmarshaler # "none"
        THEN step.setter = IF step.field.unmarshaler = "type" THEN "textUnmarshalerSet"
                           ELSE "textUnmarshalerSetPointer"
        ELSE step.setter = KindSetter(step.field)

\* The level name INFO was decoded by UnmarshalText into a field whose type
\* is of kind int and has the text-decoding capability.
C24_IntDecodedAsText ==
    /\ Decoding
    /\ ~crashed
    /\ call.v.t = "Lv"
    /\ call.err = NoErr
    /\ call.val = <<Val(<<"0">>)>>
    /\ tokens[Len(tokens)] = <<"I", "N", "F", "O", Space>>
    /\ \E step \in CachedSteps :
          /\ step.field = Types["Lv"].fields[1]
          /\ step.field.kind \in IntKinds
          /\ step.setter = "textUnmarshalerSetPointer"

\* The struct types whose field N is text-decodable.
TextDecodable == {"DS", "PDS", "Lv"}

\* The text valueSetterFunc hands to the setter of field N for the record
\* row: the column's runes, trimmed by the two trimmers.
Handed(row, hdrs, sep) ==
    TrimRight(TrimLeft(FieldRunes(row, hdrs["N"][1], hdrs["N"][2]), sep), sep)

\* C26: a Decode that reads a record into a text-decodable field leaves the
\* field bound to a value (a nil pointer is bound to a newly allocated zero
\* value first), the value being what UnmarshalText makes of it on the
\* trimmed column text, and returns the error UnmarshalText returned, as it
\* is: no CastingFailure and no OverflowFailure.
C26_UnmarshalTextUnwrapped ==
    [][\A v \in FieldTargets :
          Decode(v) /\ v.t \in TextDecodable /\ call'.applied # <<>>
          /\ "N" \in DOMAIN headers' =>
             /\ ~crashed'
             /\ ~call'.val[1].nil
             /\ call'.val[1] =
                  UnmarshalText(Types[v.t].fields[1].typ,
                                IF v.val[1].nil THEN Val(<<>>) ELSE v.val[1],
                                Handed(tokens'[Len(tokens')], headers',
                                       FieldSeparator)).val
             /\ call'.err =
                  UnmarshalText(Types[v.t].fields[1].typ,
                                IF v.val[1].nil THEN Val(<<>>) ELSE v.val[1],
                                Handed(tokens'[Len(tokens')], headers',
                                       FieldSeparator)).err
             /\ call'.err.kind \notin {"Casting", "Overflow"}]_vars

\* A Decode into a struct whose field N is a nil *DataSize read the text x:
\* it returned the error of DataSize's UnmarshalText, and the field points
\* to a zero DataSize.
C26_AllocatedThenFailed ==
    /\ Decoding
    /\ ~crashed
    /\ call.v = Target("struct", "PDS", <<NilVal>>)
    /\ tokens[Len(tokens)] = <<"x", Space, Space, Space, Space>>
    /\ call.err = Err("fw: can't parse as datasize", 0, 0, 0, "", "", <<"x">>)
    /\ call.val = <<Val(<<>>)>>

\* The struct types whose field N is a pointer, and those among them whose
\* setter is not textUnmarshalerSet.
PointerFields == {t \in FieldTypes : Types[t].fields[1].ptr}
PointerFieldsParsedFirst ==
    {t \in PointerFields : Types[t].fields[1].unmarshaler # "type"
                           \/ Types[t].fields[1].kind = "time"}

\* A Decode into v, whose field N was nil, applied the setter of N and
\* returned the setter's error.
FailedOnNil(v) ==
    /\ Decode(v)
    /\ v.val[1].nil
    /\ call'.applied # <<>>
    /\ call'.err # NoErr

\* C29 as stated: after a failed conversion a nil pointer field is still
\* nil, for every pointer setter, textUnmarshalerSet included.
C29_NilAfterFailure ==
    [][\A v \in FieldTargets :
          v.t \in PointerFields /\ FailedOnNil(v) => call'.val = v.val]_vars

\* C29, amended: after a failed conversion a nil pointer field is still nil
\* for the integer, unsigned, float, boolean, string and temporal pointer
\* setters; a nil pointer field of a text-decodable type points to a zero
\* value after UnmarshalText failed.
C29_NilAfterFailedParse ==
    [][\A v \in FieldTargets :
          /\ v.t \in PointerFieldsParsedFirst /\ FailedOnNil(v) => call'.val = v.val
          /\ v.t \in PointerFields \ PointerFieldsParsedFirst /\ FailedOnNil(v) =>
                call'.val = <<Val(<<>>)>>]_vars

\* A Decode into a struct whose field N is a nil *bool read the text x: it
\* returned a CastingError and the field is nil.
C29_BoolStillNil ==
    /\ Decoding
    /\ ~crashed
    /\ call.v = Target("struct", "PB", <<NilVal>>)
    /\ tokens[Len(tokens)] = <<"x", Space, Space, Space, Space>>
    /\ call.err.kind = "Casting"
    /\ call.val = <<NilVal>>

\* s without the copies of the separator a it starts with, and without those
\* it ends with.
RECURSIVE StripLeft(_, _)
StripLeft(s, a) ==
    IF Len(s) >= Len(a) /\ SubSeq(s, 1, Len(a)) = a
    THEN StripLeft(SubSeq(s, Len(a) + 1, Len(s)), a)
    ELSE s

RECURSIVE StripRight(_, _)
StripRight(s, a) ==
    IF Len(s) >= Len(a) /\ SubSeq(s, Len(s) - Len(a) + 1, Len(s)) = a
    THEN StripRight(SubSeq(s, 1, Len(s) - Len(a)), a)
    ELSE s

\* A Decode into v read a record and applied a plan compiled for the
\* separator in force.
AppliedCurrentPlan(v) ==
    /\ Decode(v)
    /\ call'.applied # <<>>
    /\ "N" \in DOMAIN headers'
    /\ \A i \in 1..Len(call'.applied) :
          \A j \in 1..Len(call'.applied[i].setter.steps) :
             call'.applied[i].setter.steps[j].sep = FieldSeparator

\* C25: the text handed to the setter of a string field, which the field
\* then holds, is the column's range of the record without the copies of
\* the field separator it starts with and ends with, whatever the separator.
C25_TrimmedOfSeparator ==
    [][\A v \in FieldTargets :
          v.t = "S1" /\ AppliedCurrentPlan(v) =>
             call'.val[1] =
                Val(StripRight(StripLeft(FieldRunes(tokens'[Len(tokens')],
                                                    headers'["N"][1],
                                                    headers'["N"][2]),
                                         Atoms(FieldSeparator)),
                               Atoms(FieldSeparator)))]_vars

\* With the separator ab, the string field read from the record xabab holds
\* xab, which ends with the separator.
C25_SeparatorLeftAtTheEnd ==
    /\ Decoding
    /\ ~crashed
    /\ FieldSeparator = "ab"
    /\ call.v.t = "S1"
    /\ tokens[Len(tokens)] = <<"x", "a", "b", "a", "b">>
    /\ call.err = NoErr
    /\ call.val = <<Val(<<"x", "a", "b">>)>>

====
